---------------------------- MODULE Spec2Model ----------------------------
(***************************************************************************)
(* Model of the pathfinding library: the packed obstacle grid (BitGrid),   *)
(* the generation-stamped node pool (GridPool), the indexed binary heap    *)
(* (PriorityQueue), the best-first driver (astar_unchecked) and the two    *)
(* grid expansion policies (NoCornerCutting, JpsExpansionPolicy).          *)
(*                                                                         *)
(* Conventions.                                                            *)
(*  - An Option<T> is a sequence of length 0 (None) or 1 (Some).           *)
(*  - A u64 word is the set of its set bit positions, a subset of 0..63.   *)
(*  - A byte array is the set of its set bit positions, bit b of byte i    *)
(*    being position 8*i + b; its length is kept beside it.                *)
(*  - f64 costs are fixed-point integers in units of 1/ONE; sqrt(2) is     *)
(*    SQRT_2/ONE.  For coordinates below 40 the order and the equality of  *)
(*    sums a + b*sqrt(2) are the same as those of a*ONE + b*SQRT_2.        *)
(*    The rounding of f64 is modelled where the heuristics are compared    *)
(*    with the edge costs (octile_heuristic_f64).                          *)
(*  - Rust vectors are 0-based; a vector v is the sequence whose element   *)
(*    i+1 is v[i].                                                         *)
(***************************************************************************)
EXTENDS Integers, Sequences, FiniteSets, TLC

VARIABLES
    map,      \* the BitGrid searched over
    tmap,     \* its transpose, as built by create_tmap
    pool,     \* the GridPool
    heap,     \* PriorityQueue.heap: vector of vertex ids
    policy,   \* the expansion policy state: [goal] (JpsExpansionPolicy.goal)
    inst,     \* the scenario instance being run: [from, to]
    alg,      \* index into Algorithms of the search being / last run
    pc,       \* "idle" | "searching" | "done" | "panicked" | "ub"; for the grid
              \* on its own, "idle" while it is filled and "loaded" after; for
              \* the graph on its own, "failed" once a try_add_edges returned Err
    node,     \* astar_unchecked: the node last popped by the main loop (Option)
    len,      \* scen.rs main: per algorithm, the length read after its search
    call,     \* the last pool / queue call made by the client: [op, id, fresh];
              \* the last grid / expander call: [op, id, panicked] (and v, parent)
    ret,      \* the value returned by that call
    touched,  \* history of the pool's clients: the vertices generated since
              \* the pool's last reset; of the grid's: the cells last set true
    dist,     \* what the searches are measured against: the shortest-path
              \* costs on map from inst.from, cell by cell in row-major order
    reads,    \* the positions the last call passed to get_row_unchecked and
              \* get_row_upper_unchecked: [grid, x, y, upper] per read
    graph,    \* the DirectedGraph: [vertices, edges], a vertex being
              \* [incoming, outgoing], vectors of [destination, cost]
    wgrid     \* the WeightedGrid: [width, height, cells], and the indices of
              \* cells its last call read: [grid, idx]

vars == <<map, tmap, pool, heap, policy, inst, alg, pc, node, len, call, ret,
          touched, dist, reads, graph, wgrid>>

---------------------------------------------------------------------------
(* Bounds of the model. *)

MaxW == 2
MaxH == 2
MaxBlocked == 1
\* stand-in for usize::MAX, the value at which search_num.checked_add(1) fails
MaxSearchNum == 3
\* the queue on its own: vertices of the pool
MaxNodes == 3
\* the pool on its own: vertices of the pool
MaxPoolW == 2
\* the grid on its own: obstructed cells of a map under construction
MaxSet == 2
\* width of the one-row map that is longer than one row read
WideW == 58

(* Program constants. *)

\* the f64 1.0 in fixed point
ONE == 1000
\* std::f64::consts::SQRT_2 in fixed point
SQRT_2 == 1414
\* f64::INFINITY
INFINITY == 1000000
\* u8::BITS
U8_BITS == 8
\* size of the head and of the tail guard of BitGrid.cells, in bytes
GUARD == 8
\* number of tiles returned by get_row / get_row_upper
ROW_TILES == 57
\* u64::BITS
U64_BITS == 64

None == <<>>
Some(v) == <<v>>

Min(S) == CHOOSE m \in S : \A o \in S : m <= o
Max(S) == CHOOSE m \in S : \A o \in S : m >= o
Abs(i) == IF i < 0 THEN -i ELSE i

---------------------------------------------------------------------------
(* util.rs: Direction, in declaration order (the EnumSet bit order). *)

Direction ==
    <<"NorthWest", "North", "NorthEast", "West", "East",
      "SouthWest", "South", "SouthEast">>

\* EnumSet::from_u64_truncated
from_u64_truncated(bits) == { Direction[b + 1] : b \in bits \cap (0 .. 7) }

---------------------------------------------------------------------------
(* domains/bitgrid.rs: BitGrid. *)

\* locate with rows of width bits, the padding bit of the row forgotten
locate_unpadded_width(g, x, y) ==
    LET padded_y == y + 1
        padded_x == x + 1
        id == padded_y * g.width + padded_x
    IN  <<(id \div U8_BITS) + GUARD, id % U8_BITS>>

\* locate without the offset over the head guard
locate_no_guard(g, x, y) ==
    LET padded_y == y + 1
        padded_width == g.width + 1
        padded_x == x + 1
        id == padded_y * padded_width + padded_x
    IN  <<id \div U8_BITS, id % U8_BITS>>

\* BitGrid::locate: <<byte index, bit index>>
locate(g, x, y) ==
    LET padded_y == y + 1
        padded_width == g.width + 1
        padded_x == x + 1
        id == padded_y * padded_width + padded_x
    IN  <<(id \div U8_BITS) + GUARD, id % U8_BITS>>

\* position of the bit of (x, y) in the bit array
bitpos(g, x, y) == LET l == locate(g, x, y) IN U8_BITS * l[1] + l[2]

padded_bounds_check(g, x, y) ==
    x \in -1 .. g.width /\ y \in -1 .. g.height

unpadded_bounds_check(g, x, y) ==
    x \in 0 .. g.width - 1 /\ y \in 0 .. g.height - 1

get_unchecked(g, x, y) == bitpos(g, x, y) \in g.cells

set_unchecked(g, x, y, v) ==
    IF v THEN [g EXCEPT !.cells = @ \cup {bitpos(g, x, y)}]
         ELSE [g EXCEPT !.cells = @ \ {bitpos(g, x, y)}]

\* BitGrid::get; the caller guarantees padded_bounds_check
get(g, x, y) == get_unchecked(g, x, y)

\* BitGrid::set; the caller guarantees unpadded_bounds_check
set(g, x, y, v) == set_unchecked(g, x, y, v)

\* set_unchecked(.., v) called for every one of a set of coordinates, in any
\* order: each call sets or clears the one bit of its coordinate
SetAll(g, coords, v) ==
    IF v THEN [g EXCEPT !.cells = @ \cup { bitpos(g, c[1], c[2]) : c \in coords }]
         ELSE [g EXCEPT !.cells = @ \ { bitpos(g, c[1], c[2]) : c \in coords }]

\* BitGrid::new
BitGridNew(width, height) ==
    LET padded_width == width + 1
        padded_height == height + 2
        padded_size == padded_width * padded_height + 1
        bytes == (padded_size - 1) \div U8_BITS + 1
        l == GUARD + bytes + GUARD
        this == [width |-> width, height |-> height, bytes |-> l,
                 cells |-> (0 .. U8_BITS * GUARD - 1)
                           \cup (U8_BITS * (l - GUARD) .. U8_BITS * l - 1)]
        padding == { <<x, -1>> : x \in -1 .. width - 1 }
                   \cup { <<x, height>> : x \in -1 .. width - 1 }
                   \cup { <<-1, y>> : y \in 0 .. height - 1 }
                   \cup { <<width, height>> }
    IN  SetAll(this, padding, TRUE)

\* get_row_unchecked without the shift by the bit index
get_row_byte_aligned(g, x, y) ==
    LET p == U8_BITS * locate(g, x, y)[1]
    IN  { i \in 0 .. ROW_TILES - 1 : p + i \in g.cells }

\* BitGrid::get_row_unchecked: (w >> bit) & (1 << 57) - 1
get_row_unchecked(g, x, y) ==
    LET p == bitpos(g, x, y)
    IN  { i \in 0 .. ROW_TILES - 1 : p + i \in g.cells }

\* get_row_upper_unchecked shifting by 8 - bit
get_row_upper_shift8(g, x, y) ==
    LET p == bitpos(g, x, y)
    IN  { r \in U64_BITS - ROW_TILES .. U64_BITS - 1 :
              p - (U64_BITS - r) \in g.cells }

\* BitGrid::get_row_upper_unchecked: (w << 7 - bit) & !0 << 7
get_row_upper_unchecked(g, x, y) ==
    LET p == bitpos(g, x, y)
    IN  { r \in U64_BITS - ROW_TILES .. U64_BITS - 1 :
              p - (U64_BITS - 1 - r) \in g.cells }

\* the bytes of cells read by get_row_unchecked (upper FALSE: the eight from
\* idx on) and by get_row_upper_unchecked (upper TRUE: the eight up to idx)
row_bytes(g, x, y, upper) ==
    LET idx == locate(g, x, y)[1]
    IN  IF upper THEN idx - (U8_BITS - 1) .. idx ELSE idx .. idx + (U8_BITS - 1)

\* one read of a row: of which grid, where, and by which of the two
Read(grid, x, y, upper) == [grid |-> grid, x |-> x, y |-> y, upper |-> upper]

\* get_neighbors_unchecked taking East from the tile itself
get_neighbors_east_of_itself(g, x, y) ==
    LET upper == get_row_unchecked(g, x - 1, y - 1)
        middle == get_row_unchecked(g, x - 1, y)
        lower == get_row_unchecked(g, x - 1, y + 1)
        bits == (upper \cap {0, 1, 2})
                \cup { b + 3 : b \in middle \cap {0} }
                \cup { b + 3 : b \in middle \cap {1} }
                \cup { b + 5 : b \in lower \cap {0, 1, 2} }
    IN  from_u64_truncated(bits)

\* BitGrid::get_neighbors_unchecked
get_neighbors_unchecked(g, x, y) ==
    LET upper == get_row_unchecked(g, x - 1, y - 1)
        middle == get_row_unchecked(g, x - 1, y)
        lower == get_row_unchecked(g, x - 1, y + 1)
        bits == (upper \cap {0, 1, 2})
                \cup { b + 3 : b \in middle \cap {0} }
                \cup { b + 2 : b \in middle \cap {2} }
                \cup { b + 5 : b \in lower \cap {0, 1, 2} }
    IN  from_u64_truncated(bits)

\* BitGrid::get_neighbors; the caller guarantees unpadded_bounds_check
get_neighbors(g, x, y) == get_neighbors_unchecked(g, x, y)

\* the three rows get_neighbors_unchecked reads
neighbors_reads(grid, x, y) ==
    { Read(grid, x - 1, yy, FALSE) : yy \in {y - 1, y, y + 1} }

\* create_tmap: the loop body tmap.set(y, x, map.get(x, y)) over all cells,
\* each call clearing or setting the one bit of (y, x)
TmapFill(t, m, coords) ==
    [t EXCEPT !.cells =
        (@ \ { bitpos(t, c[2], c[1]) : c \in coords })
        \cup { bitpos(t, c[2], c[1]) :
                 c \in { cc \in coords : get(m, cc[1], cc[2]) } }]

create_tmap(m) ==
    TmapFill(BitGridNew(m.height, m.width), m,
             (0 .. m.width - 1) \X (0 .. m.height - 1))

---------------------------------------------------------------------------
(* Edge { destination, cost } *)

Edge(destination, cost) == [destination |-> destination, cost |-> cost]

is_disjoint(nbs, dirs) == nbs \cap dirs = {}

(* expansion_policy/bitgrid/no_corner_cutting.rs *)

\* the eight edges with the diagonals tested on the diagonal cell alone
NccEdgesCutting(nbs, x, y) ==
    LET e(dirs, dx, dy, cost) ==
            IF is_disjoint(nbs, dirs) THEN <<Edge(<<x + dx, y + dy>>, cost)>>
            ELSE <<>>
    IN  e({"North"}, 0, -1, ONE)
        \o e({"South"}, 0, 1, ONE)
        \o e({"West"}, -1, 0, ONE)
        \o e({"East"}, 1, 0, ONE)
        \o e({"NorthWest"}, -1, -1, SQRT_2)
        \o e({"NorthEast"}, 1, -1, SQRT_2)
        \o e({"SouthWest"}, -1, 1, SQRT_2)
        \o e({"SouthEast"}, 1, 1, SQRT_2)

\* NoCornerCutting::expand_unchecked after `let nbs = ...`: the edges pushed,
\* in push order
NccEdges(nbs, x, y) ==
    LET e(dirs, dx, dy, cost) ==
            IF is_disjoint(nbs, dirs) THEN <<Edge(<<x + dx, y + dy>>, cost)>>
            ELSE <<>>
    IN  e({"North"}, 0, -1, ONE)
        \o e({"South"}, 0, 1, ONE)
        \o e({"West"}, -1, 0, ONE)
        \o e({"East"}, 1, 0, ONE)
        \o e({"North", "West", "NorthWest"}, -1, -1, SQRT_2)
        \o e({"North", "East", "NorthEast"}, 1, -1, SQRT_2)
        \o e({"South", "West", "SouthWest"}, -1, 1, SQRT_2)
        \o e({"South", "East", "SouthEast"}, 1, 1, SQRT_2)

\* NoCornerCutting::expand_unchecked
NccExpandUnchecked(m, id) ==
    NccEdges(get_neighbors_unchecked(m, id[1], id[2]), id[1], id[2])

(* expansion_policy/bitgrid/jps.rs *)

\* u64 operations on words
Word == 0 .. U64_BITS - 1
shl(w, k) == { i + k : i \in w } \cap Word
shr(w, k) == { i - k : i \in w } \cap Word
not(w) == Word \ w
trailing_zeros(w) == Min(w)
leading_zeros(w) == U64_BITS - 1 - Max(w)

\* Result<i32, bool>
Ok(d) == [ok |-> TRUE, d |-> d, flag |-> FALSE]
Err(b) == [ok |-> FALSE, d |-> 0, flag |-> b]

\* jump_plus_unchecked: the stop mask of one iteration
\* the stop mask without the forced neighbours of the row above
plus_stop_below_only(bits_above, bits, bits_below) ==
    ((shl(bits_below, 1) \cap not(bits_below)) \cup bits)
    \cap shr(Word, U64_BITS - ROW_TILES)

plus_stop(bits_above, bits, bits_below) ==
    ((shl(bits_above, 1) \cap not(bits_above))
     \cup (shl(bits_below, 1) \cap not(bits_below))
     \cup bits)
    \cap shr(Word, U64_BITS - ROW_TILES)

\* jump_plus_unchecked: the branch `if stop != 0`, d being distance + stop
plus_stopped(bits, tz, x, y, goal_x, goal_y, d) ==
    IF y = goal_y /\ x <= goal_x /\ goal_x <= x + d
    THEN Ok(goal_x - x)
    ELSE IF tz \in bits THEN Err(d <= 1) ELSE Ok(d)

RECURSIVE jump_plus_loop(_, _, _, _, _, _)
RECURSIVE jump_plus_iter(_, _, _, _, _, _, _, _)
\* jump_plus_unchecked: one iteration of the loop, given the row read at
\* (x + distance, y) and the stop mask
jump_plus_iter(m, x, y, goal_x, goal_y, distance, bits, stop) ==
    IF stop # {}
    THEN plus_stopped(bits, trailing_zeros(stop), x, y, goal_x, goal_y,
                      distance + trailing_zeros(stop))
    ELSE jump_plus_loop(m, x, y, goal_x, goal_y, distance + ROW_TILES - 1)

\* jump_plus_unchecked: the loop, entered with `distance`
jump_plus_loop(m, x, y, goal_x, goal_y, distance) ==
    jump_plus_iter(m, x, y, goal_x, goal_y, distance,
                   get_row_unchecked(m, x + distance, y),
                   plus_stop(get_row_unchecked(m, x + distance, y - 1),
                             get_row_unchecked(m, x + distance, y),
                             get_row_unchecked(m, x + distance, y + 1)))

jump_plus_unchecked(m, x, y, goal_x, goal_y) ==
    jump_plus_loop(m, x, y, goal_x, goal_y, 0)

\* jump_minus_unchecked: the stop mask of one iteration
minus_stop(bits_above, bits, bits_below) ==
    ((shr(bits_above, 1) \cap not(bits_above))
     \cup (shr(bits_below, 1) \cap not(bits_below))
     \cup bits)
    \cap shl(Word, U64_BITS - ROW_TILES)

\* the branch with the flag raised for a stop on the start cell alone
minus_stopped_at_start(bits, lz, x, y, goal_x, goal_y, d) ==
    IF y = goal_y /\ x - d <= goal_x /\ goal_x <= x
    THEN Ok(x - goal_x)
    ELSE IF (U64_BITS - 1 - lz) \in bits THEN Err(d < 1) ELSE Ok(d)

\* jump_minus_unchecked: the branch `if stop != 0`, d being distance + stop
minus_stopped(bits, lz, x, y, goal_x, goal_y, d) ==
    IF y = goal_y /\ x - d <= goal_x /\ goal_x <= x
    THEN Ok(x - goal_x)
    ELSE IF (U64_BITS - 1 - lz) \in bits THEN Err(d <= 1) ELSE Ok(d)

RECURSIVE jump_minus_loop(_, _, _, _, _, _)
RECURSIVE jump_minus_iter(_, _, _, _, _, _, _, _)
\* jump_minus_unchecked: one iteration of the loop, given the row read at
\* (x - distance, y) and the stop mask
jump_minus_iter(m, x, y, goal_x, goal_y, distance, bits, stop) ==
    IF stop # {}
    THEN minus_stopped(bits, leading_zeros(stop), x, y, goal_x, goal_y,
                       distance + leading_zeros(stop))
    ELSE jump_minus_loop(m, x, y, goal_x, goal_y, distance + ROW_TILES - 1)

\* jump_minus_unchecked: the loop, entered with `distance`
jump_minus_loop(m, x, y, goal_x, goal_y, distance) ==
    jump_minus_iter(m, x, y, goal_x, goal_y, distance,
                    get_row_upper_unchecked(m, x - distance, y),
                    minus_stop(get_row_upper_unchecked(m, x - distance, y - 1),
                               get_row_upper_unchecked(m, x - distance, y),
                               get_row_upper_unchecked(m, x - distance, y + 1)))

jump_minus_unchecked(m, x, y, goal_x, goal_y) ==
    jump_minus_loop(m, x, y, goal_x, goal_y, 0)

\* the body giving up only when both cardinal jumps raise their flag
diag_step_both(a, b) ==
    IF a.ok THEN "some"
    ELSE IF b.ok THEN "some"
    ELSE IF a.flag /\ b.flag THEN "none" ELSE "continue"

\* the body shared by the four diagonal jumps: a and b are the results of the
\* two cardinal jumps made from the diagonal cell at `distance`
diag_step(a, b) ==
    IF a.ok THEN "some"
    ELSE IF b.ok THEN "some"
    ELSE IF a.flag \/ b.flag THEN "none" ELSE "continue"

RECURSIVE jump_northwest_loop(_, _, _, _, _, _, _)
RECURSIVE jump_northwest_iter(_, _, _, _, _, _, _, _)
jump_northwest_iter(m, t, x, y, goal_x, goal_y, distance, r) ==
    IF r = "some" THEN Some(distance)
    ELSE IF r = "none" THEN None
    ELSE jump_northwest_loop(m, t, x, y, goal_x, goal_y, distance + 1)

\* jump_northwest_unchecked: the loop body, `distance` already incremented
jump_northwest_loop(m, t, x, y, goal_x, goal_y, distance) ==
    jump_northwest_iter(m, t, x, y, goal_x, goal_y, distance,
        diag_step(jump_minus_unchecked(m, x - distance, y - distance, goal_x, goal_y),
                  jump_minus_unchecked(t, y - distance, x - distance, goal_y, goal_x)))

jump_northwest_unchecked(m, t, x, y, goal_x, goal_y) ==
    jump_northwest_loop(m, t, x, y, goal_x, goal_y, 1)

RECURSIVE jump_northeast_loop(_, _, _, _, _, _, _)
RECURSIVE jump_northeast_iter(_, _, _, _, _, _, _, _)
jump_northeast_iter(m, t, x, y, goal_x, goal_y, distance, r) ==
    IF r = "some" THEN Some(distance)
    ELSE IF r = "none" THEN None
    ELSE jump_northeast_loop(m, t, x, y, goal_x, goal_y, distance + 1)

\* jump_northeast_unchecked: the loop body, `distance` already incremented
jump_northeast_loop(m, t, x, y, goal_x, goal_y, distance) ==
    jump_northeast_iter(m, t, x, y, goal_x, goal_y, distance,
        diag_step(jump_plus_unchecked(m, x + distance, y - distance, goal_x, goal_y),
                  jump_minus_unchecked(t, y - distance, x + distance, goal_y, goal_x)))

jump_northeast_unchecked(m, t, x, y, goal_x, goal_y) ==
    jump_northeast_loop(m, t, x, y, goal_x, goal_y, 1)

RECURSIVE jump_southwest_loop(_, _, _, _, _, _, _)
RECURSIVE jump_southwest_iter(_, _, _, _, _, _, _, _)
jump_southwest_iter(m, t, x, y, goal_x, goal_y, distance, r) ==
    IF r = "some" THEN Some(distance)
    ELSE IF r = "none" THEN None
    ELSE jump_southwest_loop(m, t, x, y, goal_x, goal_y, distance + 1)

\* jump_southwest_unchecked: the loop body, `distance` already incremented
jump_southwest_loop(m, t, x, y, goal_x, goal_y, distance) ==
    jump_southwest_iter(m, t, x, y, goal_x, goal_y, distance,
        diag_step(jump_minus_unchecked(m, x - distance, y + distance, goal_x, goal_y),
                  jump_plus_unchecked(t, y + distance, x - distance, goal_y, goal_x)))

jump_southwest_unchecked(m, t, x, y, goal_x, goal_y) ==
    jump_southwest_loop(m, t, x, y, goal_x, goal_y, 1)

RECURSIVE jump_southeast_loop(_, _, _, _, _, _, _)
RECURSIVE jump_southeast_iter(_, _, _, _, _, _, _, _)
jump_southeast_iter(m, t, x, y, goal_x, goal_y, distance, r) ==
    IF r = "some" THEN Some(distance)
    ELSE IF r = "none" THEN None
    ELSE jump_southeast_loop(m, t, x, y, goal_x, goal_y, distance + 1)

\* jump_southeast_unchecked: the loop body, `distance` already incremented
jump_southeast_loop(m, t, x, y, goal_x, goal_y, distance) ==
    jump_southeast_iter(m, t, x, y, goal_x, goal_y, distance,
        diag_step(jump_plus_unchecked(m, x + distance, y + distance, goal_x, goal_y),
                  jump_plus_unchecked(t, y + distance, x + distance, goal_y, goal_x)))

jump_southeast_unchecked(m, t, x, y, goal_x, goal_y) ==
    jump_southeast_loop(m, t, x, y, goal_x, goal_y, 1)

\* get_direction: the compass direction from the parent to the node
get_direction(id, parent) ==
    IF parent = None THEN None
    ELSE LET x == id[1]
             y == id[2]
             px == parent[1][1]
             py == parent[1][2]
         IN  IF y < py
             THEN (IF x < px THEN Some("NorthWest")
                   ELSE IF x = px THEN Some("North") ELSE Some("NorthEast"))
             ELSE IF y = py
             THEN (IF x < px THEN Some("West")
                   ELSE IF x = px THEN Some("unreachable") ELSE Some("East"))
             ELSE (IF x < px THEN Some("SouthWest")
                   ELSE IF x = px THEN Some("South") ELSE Some("SouthEast"))

\* the arm with the forward diagonals tested on the diagonal cell alone
cardinal_arm_cutting(nbs, c, r1, s1, f1, r2, s2, f2) ==
    (IF c \notin nbs THEN {c} ELSE {})
    \cup (IF r1 \in nbs /\ s1 \notin nbs
          THEN {s1} \cup (IF is_disjoint(nbs, {f1}) THEN {f1} ELSE {})
          ELSE {})
    \cup (IF r2 \in nbs /\ s2 \notin nbs
          THEN {s2} \cup (IF is_disjoint(nbs, {f2}) THEN {f2} ELSE {})
          ELSE {})

\* one arm of canonical_successors for a cardinal arrival: `c` is the arrival
\* direction, s1/s2 the two sides, r1/r2 the rear diagonals tested, f1/f2 the
\* forward diagonals added
cardinal_arm(nbs, c, r1, s1, f1, r2, s2, f2) ==
    (IF c \notin nbs THEN {c} ELSE {})
    \cup (IF r1 \in nbs /\ s1 \notin nbs
          THEN {s1} \cup (IF is_disjoint(nbs, {f1, c}) THEN {f1} ELSE {})
          ELSE {})
    \cup (IF r2 \in nbs /\ s2 \notin nbs
          THEN {s2} \cup (IF is_disjoint(nbs, {f2, c}) THEN {f2} ELSE {})
          ELSE {})

\* one arm of canonical_successors for a diagonal arrival d flanked by a, b
diagonal_arm(nbs, a, b, d) ==
    (IF a \notin nbs THEN {a} ELSE {})
    \cup (IF b \notin nbs THEN {b} ELSE {})
    \cup (IF is_disjoint(nbs, {a, b, d}) THEN {d} ELSE {})

\* canonical_successors after `let nbs = map.get_neighbors(x, y)`
successors_of(nbs, dir) ==
        IF dir = None
        THEN { d \in {"North", "South", "West", "East"} : is_disjoint(nbs, {d}) }
             \cup (IF is_disjoint(nbs, {"North", "West", "NorthWest"})
                   THEN {"NorthWest"} ELSE {})
             \cup (IF is_disjoint(nbs, {"North", "East", "NorthEast"})
                   THEN {"NorthEast"} ELSE {})
             \cup (IF is_disjoint(nbs, {"South", "West", "SouthWest"})
                   THEN {"SouthWest"} ELSE {})
             \cup (IF is_disjoint(nbs, {"South", "East", "SouthEast"})
                   THEN {"SouthEast"} ELSE {})
        ELSE CASE dir[1] = "NorthWest" -> diagonal_arm(nbs, "North", "West", "NorthWest")
               [] dir[1] = "NorthEast" -> diagonal_arm(nbs, "North", "East", "NorthEast")
               [] dir[1] = "SouthWest" -> diagonal_arm(nbs, "South", "West", "SouthWest")
               [] dir[1] = "SouthEast" -> diagonal_arm(nbs, "South", "East", "SouthEast")
               [] dir[1] = "North" ->
                    cardinal_arm(nbs, "North", "SouthWest", "West", "NorthWest",
                                 "SouthEast", "East", "NorthEast")
               [] dir[1] = "West" ->
                    cardinal_arm(nbs, "West", "SouthEast", "South", "SouthWest",
                                 "NorthEast", "North", "NorthWest")
               [] dir[1] = "South" ->
                    cardinal_arm(nbs, "South", "NorthEast", "East", "SouthEast",
                                 "NorthWest", "West", "SouthWest")
               [] dir[1] = "East" ->
                    cardinal_arm(nbs, "East", "NorthWest", "North", "NorthEast",
                                 "SouthWest", "South", "SouthEast")

canonical_successors(m, id, dir) ==
    successors_of(get_neighbors(m, id[1], id[2]), dir)

\* JpsExpansionPolicy::expand_unchecked after `let successors = ...`: the
\* edges pushed, in push order
JpsEdges(successors, m, t, goal_x, goal_y, x, y) ==
    LET card(dir, r, dx, dy) ==
            IF dir \in successors /\ r.ok
            THEN <<Edge(<<x + dx * r.d, y + dy * r.d>>, r.d * ONE)>> ELSE <<>>
        diag(dir, r, dx, dy) ==
            IF dir \in successors /\ r # None
            THEN <<Edge(<<x + dx * r[1], y + dy * r[1]>>, SQRT_2 * r[1])>> ELSE <<>>
    IN  card("East", jump_plus_unchecked(m, x, y, goal_x, goal_y), 1, 0)
        \o card("South", jump_plus_unchecked(t, y, x, goal_y, goal_x), 0, 1)
        \o card("West", jump_minus_unchecked(m, x, y, goal_x, goal_y), -1, 0)
        \o card("North", jump_minus_unchecked(t, y, x, goal_y, goal_x), 0, -1)
        \o diag("NorthWest", jump_northwest_unchecked(m, t, x, y, goal_x, goal_y), -1, -1)
        \o diag("NorthEast", jump_northeast_unchecked(m, t, x, y, goal_x, goal_y), 1, -1)
        \o diag("SouthWest", jump_southwest_unchecked(m, t, x, y, goal_x, goal_y), -1, 1)
        \o diag("SouthEast", jump_southeast_unchecked(m, t, x, y, goal_x, goal_y), 1, 1)

\* JpsExpansionPolicy::expand_unchecked
JpsExpandUnchecked(m, t, goal, id, parent) ==
    JpsEdges(canonical_successors(m, id, get_direction(id, parent)),
             m, t, goal[1], goal[2], id[1], id[2])

\* the rows read by jump_plus_unchecked (upper FALSE) and by
\* jump_minus_unchecked (upper TRUE) on grid m from the loop entered with
\* `distance`: three per iteration, the next iteration when no tile stops it
RECURSIVE jump_reads(_, _, _, _, _, _)
jump_reads(m, grid, upper, x, y, distance) ==
    LET xd == IF upper THEN x - distance ELSE x + distance
        stop == IF upper
                THEN minus_stop(get_row_upper_unchecked(m, xd, y - 1),
                                get_row_upper_unchecked(m, xd, y),
                                get_row_upper_unchecked(m, xd, y + 1))
                ELSE plus_stop(get_row_unchecked(m, xd, y - 1),
                               get_row_unchecked(m, xd, y),
                               get_row_unchecked(m, xd, y + 1))
    IN  { Read(grid, xd, yy, upper) : yy \in {y - 1, y, y + 1} }
        \cup (IF stop = {} /\ padded_bounds_check(m, xd, y)
              THEN jump_reads(m, grid, upper, x, y, distance + ROW_TILES - 1)
              ELSE {})

\* the rows read by the diagonal jump towards (sx, sy) from the loop body
\* entered with `distance`: those of the jump along the row of map, and,
\* when that one is not Ok, those of the jump along the row of tmap
RECURSIVE diagonal_reads(_, _, _, _, _, _, _, _, _)
diagonal_reads(m, t, x, y, goal_x, goal_y, sx, sy, distance) ==
    LET cx == x + sx * distance
        cy == y + sy * distance
        a == IF sx > 0 THEN jump_plus_unchecked(m, cx, cy, goal_x, goal_y)
             ELSE jump_minus_unchecked(m, cx, cy, goal_x, goal_y)
        b == IF sy > 0 THEN jump_plus_unchecked(t, cy, cx, goal_y, goal_x)
             ELSE jump_minus_unchecked(t, cy, cx, goal_y, goal_x)
    IN  jump_reads(m, "map", sx < 0, cx, cy, 0)
        \cup (IF a.ok THEN {}
              ELSE jump_reads(t, "tmap", sy < 0, cy, cx, 0)
                   \cup (IF diag_step(a, b) = "continue"
                            /\ padded_bounds_check(m, cx, cy)
                         THEN diagonal_reads(m, t, x, y, goal_x, goal_y, sx, sy,
                                             distance + 1)
                         ELSE {}))

\* the rows read by JpsExpansionPolicy::expand_unchecked: those of
\* canonical_successors and those of the jumps made for the successors
JpsReads(successors, m, t, goal_x, goal_y, x, y) ==
    neighbors_reads("map", x, y)
    \cup (IF "East" \in successors THEN jump_reads(m, "map", FALSE, x, y, 0) ELSE {})
    \cup (IF "South" \in successors THEN jump_reads(t, "tmap", FALSE, y, x, 0) ELSE {})
    \cup (IF "West" \in successors THEN jump_reads(m, "map", TRUE, x, y, 0) ELSE {})
    \cup (IF "North" \in successors THEN jump_reads(t, "tmap", TRUE, y, x, 0) ELSE {})
    \cup UNION { IF d[1] \in successors
                 THEN diagonal_reads(m, t, x, y, goal_x, goal_y, d[2], d[3], 1)
                 ELSE {} :
                 d \in { <<"NorthWest", -1, -1>>, <<"NorthEast", 1, -1>>,
                         <<"SouthWest", -1, 1>>, <<"SouthEast", 1, 1>> } }

(* domains/bitgrid/ortho_edges.rs *)

\* OrthoEdges::edges after `let obstructions = ...`: the edges pushed, in push
\* order (the direction of a GridEdge is that of its destination)
OrthoEdges(obstructions, x, y) ==
    LET e(dir, dx, dy) ==
            IF dir \notin obstructions THEN <<Edge(<<x + dx, y + dy>>, ONE)>>
            ELSE <<>>
    IN  e("North", 0, -1) \o e("West", -1, 0) \o e("East", 1, 0)
        \o e("South", 0, 1)

(* util.rs: heuristics *)

octile_heuristic(t, scale, v) ==
    LET dx == Abs(t[1] - v[1])
        dy == Abs(t[2] - v[2])
        diagonal_moves == IF dx < dy THEN dx ELSE dy
        ortho_moves == (IF dx > dy THEN dx ELSE dy) - diagonal_moves
    IN  (ortho_moves * ONE + SQRT_2 * diagonal_moves) * scale

zero_heuristic(v) == 0

(* The heuristics in f64 itself, rounding included.  Every f64 the          *)
(* heuristics and the edge costs take on a grid narrower than 2^8 is 0 or   *)
(* lies in [1, 2^9), and so is a whole number of units of 2^-52.  Such a    *)
(* value is the pair <<hi, lo>> standing for (hi * LIMB + lo) * 2^-52 with  *)
(* lo < LIMB; an f64 in [2^e, 2^(e+1)) is a multiple of 2^e units           *)
(* (53 significant bits).                                                   *)

LIMB == 2 ^ 30
\* 1.0 is 2^52 units (f64::MANTISSA_DIGITS = 53), that is 2^22 LIMBs
F64_ONE_HI == 2 ^ 22
\* std::f64::consts::SQRT_2 = 0x1.6a09e667f3bcdp+0 = 0x16A09E667F3BCD units,
\* and 0x16A09E667F3BCD = 5931641 * 2^30 + 645872589
F64_SQRT_2 == <<5931641, 645872589>>

\* the sum and the integer multiple before rounding
f64_sum(a, b) ==
    <<a[1] + b[1] + ((a[2] + b[2]) \div LIMB), (a[2] + b[2]) % LIMB>>

RECURSIVE f64_times(_, _)
f64_times(a, n) == IF n = 0 THEN <<0, 0>> ELSE f64_sum(a, f64_times(a, n - 1))

\* round to nearest, ties to even, to 53 significant bits: to a multiple of
\* 2^e units for the e with 2^e <= a < 2^(e+1) (a >= 1; e = 0 for a = 0)
f64_round(a) ==
    LET e == Max({0} \cup { k \in 1 .. 8 : a[1] >= F64_ONE_HI * (2 ^ k) })
        q == 2 ^ e
        r == a[2] % q
        down == <<a[1], a[2] - r>>
        up == f64_sum(down, <<0, q>>)
    IN  IF r = 0 THEN a
        ELSE IF 2 * r > q THEN up
        ELSE IF 2 * r < q THEN down
        ELSE IF ((a[2] - r) \div q) % 2 = 0 THEN down ELSE up

\* n as f64, for 0 <= n < 2^9
f64_from(n) == <<n * F64_ONE_HI, 0>>

\* a + b and a * (n as f64) in f64
f64_add(a, b) == f64_round(f64_sum(a, b))
f64_mul(a, n) == f64_round(f64_times(a, n))

f64_le(a, b) == a[1] < b[1] \/ (a[1] = b[1] /\ a[2] <= b[2])

\* octile_heuristic((tx, ty), 1.0)(v); the product by the scale 1.0 is exact
octile_heuristic_f64(t, v) ==
    LET dx == Abs(t[1] - v[1])
        dy == Abs(t[2] - v[2])
        diagonal_moves == Min({dx, dy})
        ortho_moves == Max({dx, dy}) - Min({dx, dy})
    IN  f64_add(f64_from(ortho_moves), f64_mul(F64_SQRT_2, diagonal_moves))

\* manhattan_heuristic((tx, ty), 1.0)(v)
manhattan_heuristic_f64(t, v) ==
    LET dx == Abs(t[1] - v[1])
        dy == Abs(t[2] - v[2])
    IN  f64_from(dx + dy)

\* the f64 of an edge cost the expanders make as `d as f64` (kept as d * ONE)
\* or as `SQRT_2 * d as f64` (kept as SQRT_2 * d), for 0 < d < ONE / 2
f64_cost(c) ==
    IF c % ONE = 0 THEN f64_from(c \div ONE)
    ELSE f64_mul(F64_SQRT_2, c \div SQRT_2)

---------------------------------------------------------------------------
(* node_pool/gridpool.rs: GridPool, and lib.rs: SearchNode. *)

SearchNode(id) ==
    [search_num |-> 0, expansions |-> 0, pqueue_location |-> 0, id |-> id,
     parent |-> None, g |-> 0, lb |-> 0]

\* GridPool::new: the nodes are pushed row by row
GridPoolNew(width, height) ==
    [search_num |-> 0, width |-> width, height |-> height,
     grid |-> [i \in 1 .. width * height |->
                  SearchNode(<<(i - 1) % width, (i - 1) \div width>>)]]

\* GridPool::bounds_check: TRUE when it does not panic
bounds_check(p, x, y) ==
    x \in 0 .. p.width - 1 /\ y \in 0 .. p.height - 1

\* GridPool::locate (release build): the 0-based index into grid
pool_locate(p, x, y) == x + y * p.width

\* get without the comparison of search numbers
pool_get_unstamped(p, x, y) == Some(p.grid[pool_locate(p, x, y) + 1])

\* GridPool::get; the caller guarantees bounds_check
pool_get(p, x, y) ==
    LET cell == p.grid[pool_locate(p, x, y) + 1]
    IN  IF cell.search_num = p.search_num THEN Some(cell) ELSE None

\* reset that on overflow restarts the counter without the walk over the nodes
reset_no_walk(p) ==
    IF p.search_num + 1 <= MaxSearchNum
    THEN [p EXCEPT !.search_num = @ + 1]
    ELSE [p EXCEPT !.search_num = 1]

\* NodePool::reset for GridPool
reset(p) ==
    IF p.search_num + 1 <= MaxSearchNum
    THEN [p EXCEPT !.search_num = @ + 1]
    ELSE [p EXCEPT !.search_num = 1,
                   !.grid = [i \in DOMAIN @ |-> [@[i] EXCEPT !.search_num = 0]]]

\* generate that initialises the node whatever its search number
generate_at_always(p, idx) ==
    [p EXCEPT !.grid[idx + 1] =
        [@ EXCEPT !.lb = INFINITY, !.g = INFINITY, !.expansions = 0,
                  !.search_num = p.search_num, !.parent = None]]

\* GridPool::generate_unchecked on the cell at 0-based index idx
generate_at(p, idx) ==
    IF p.grid[idx + 1].search_num = p.search_num THEN p
    ELSE [p EXCEPT !.grid[idx + 1] =
             [@ EXCEPT !.lb = INFINITY, !.g = INFINITY, !.expansions = 0,
                       !.search_num = p.search_num, !.parent = None]]

\* GridPool::generate_unchecked.  An id outside the pool panics in locate when
\* debug assertions are on; otherwise get_unchecked is handed the wrapped index,
\* which names another vertex's cell when it is below grid.len() and is
\* undefined behaviour when it is not.
generate_unchecked(p, id, build) ==
    LET idx == pool_locate(p, id[1], id[2])
    IN  IF bounds_check(p, id[1], id[2])
        THEN [pool |-> generate_at(p, idx), idx |-> idx, trap |-> "no"]
        ELSE IF build = "debug"
        THEN [pool |-> p, idx |-> idx, trap |-> "panicked"]
        ELSE IF idx \in 0 .. Len(p.grid) - 1
        THEN [pool |-> generate_at(p, idx), idx |-> idx, trap |-> "no"]
        ELSE [pool |-> p, idx |-> idx, trap |-> "ub"]

\* NodePool::generate for GridPool; the caller guarantees bounds_check
generate(p, id) == generate_at(p, pool_locate(p, id[1], id[2]))

---------------------------------------------------------------------------
(* pqueue.rs: PriorityQueue over the pool.  A queue operation takes and     *)
(* returns q = [heap, pool]; pop also returns ret.                          *)

\* astar_ordering with the comparison of lb turned round
astar_ordering_reversed(a, b) ==
    IF a.lb > b.lb THEN TRUE
    ELSE IF a.lb < b.lb THEN FALSE
    ELSE a.g >= b.g

\* algs/astar.rs: astar_ordering
astar_ordering(a, b) ==
    IF a.lb < b.lb THEN TRUE
    ELSE IF a.lb > b.lb THEN FALSE
    ELSE a.g >= b.g

is_le(a, b) == astar_ordering(a, b)

\* node_pool.get(v).unwrap()
unwrap_get(p, v) == pool_get(p, v[1], v[2])[1]

\* node_pool.generate(v).set_location(index)
set_location(p, v, index) ==
    LET p1 == generate(p, v)
    IN  [p1 EXCEPT !.grid[pool_locate(p, v[1], v[2]) + 1].pqueue_location = index]

\* contains taking any index inside the heap for the node's own
contains_in_range(q, v) ==
    LET n == pool_get(q.pool, v[1], v[2])
    IN  /\ n # None
        /\ n[1].pqueue_location < Len(q.heap)

\* PriorityQueue::contains
contains(q, v) ==
    LET n == pool_get(q.pool, v[1], v[2])
    IN  /\ n # None
        /\ n[1].pqueue_location < Len(q.heap)
        /\ q.heap[n[1].pqueue_location + 1] = v

\* PriorityQueue::le
le(q, i, j) == is_le(unwrap_get(q.pool, q.heap[i + 1]), unwrap_get(q.pool, q.heap[j + 1]))

\* the swap with only the first of the two set_location calls
swap_and_locate_once(q, i, j) ==
    LET h == [q.heap EXCEPT ![i + 1] = q.heap[j + 1], ![j + 1] = q.heap[i + 1]]
    IN  [heap |-> h, pool |-> set_location(q.pool, h[i + 1], i)]

\* Vec::swap followed by the two set_location calls
swap_and_locate(q, i, j) ==
    LET h == [q.heap EXCEPT ![i + 1] = q.heap[j + 1], ![j + 1] = q.heap[i + 1]]
    IN  [heap |-> h,
         pool |-> set_location(set_location(q.pool, h[i + 1], i), h[j + 1], j)]

RECURSIVE heapify_up(_, _)
heapify_up(q, i) ==
    IF i = 0 THEN q
    ELSE LET parent == (i - 1) \div 2
         IN  IF le(q, parent, i) THEN q
             ELSE heapify_up(swap_and_locate(q, i, parent), parent)

\* heapify_down that always descends into the first child
RECURSIVE heapify_down_first(_, _)
heapify_down_first(q, i) ==
    LET c1 == i * 2 + 1
    IN  IF c1 >= Len(q.heap) THEN q
        ELSE IF le(q, i, c1) THEN q
        ELSE heapify_down_first(swap_and_locate(q, i, c1), c1)

RECURSIVE heapify_down(_, _)
heapify_down(q, i) ==
    LET c1 == i * 2 + 1
        c2 == c1 + 1
    IN  IF c1 >= Len(q.heap) THEN q
        ELSE LET smaller_child ==
                     IF c2 >= Len(q.heap) \/ le(q, c1, c2) THEN c1 ELSE c2
             IN  IF le(q, i, smaller_child) THEN q
                 ELSE heapify_down(swap_and_locate(q, i, smaller_child),
                                   smaller_child)

\* PriorityQueue::push (decrease_key)
push(q, vertex) ==
    IF ~contains(q, vertex)
    THEN LET index == Len(q.heap)
         IN  heapify_up([heap |-> Append(q.heap, vertex),
                         pool |-> set_location(q.pool, vertex, index)], index)
    ELSE LET n == unwrap_get(q.pool, vertex)
             index == n.pqueue_location
         IN  IF index = 0 THEN heapify_down(q, 0)
             ELSE LET parent == unwrap_get(q.pool, q.heap[(index - 1) \div 2 + 1])
                  IN  IF is_le(parent, n) THEN heapify_down(q, index)
                      ELSE heapify_up(q, index)

\* Vec::swap_remove(0): the last element takes the place of the first
swap_remove0(h) == [i \in 1 .. Len(h) - 1 |-> IF i = 1 THEN h[Len(h)] ELSE h[i]]

\* pop that takes the last entry of the vector whatever its length
pop_last(q) ==
    IF Len(q.heap) = 0 THEN [heap |-> q.heap, pool |-> q.pool, ret |-> None]
    ELSE [heap |-> SubSeq(q.heap, 1, Len(q.heap) - 1), pool |-> q.pool,
          ret |-> Some(q.heap[Len(q.heap)])]

\* PriorityQueue::pop
pop(q) ==
    IF Len(q.heap) = 0 THEN [heap |-> q.heap, pool |-> q.pool, ret |-> None]
    ELSE IF Len(q.heap) = 1
    THEN [heap |-> <<>>, pool |-> q.pool, ret |-> Some(q.heap[1])]
    ELSE LET k == q.heap[1]
             h == swap_remove0(q.heap)
             q1 == heapify_down([heap |-> h, pool |-> set_location(q.pool, h[1], 0)], 0)
         IN  [heap |-> q1.heap, pool |-> q1.pool, ret |-> Some(k)]

\* PriorityQueue::clear
clear(q) == [q EXCEPT !.heap = <<>>]

---------------------------------------------------------------------------
(* lib.rs: astar_unchecked, driven as examples/scen.rs drives it: one pool  *)
(* per map, the three algorithms run one after the other on one instance.   *)

\* examples/scen.rs: enum Algorithm
Algorithms == <<"Dijkstra", "AStar", "Jps">>

\* the two ways the crate is built: with and without debug assertions
Builds == {"debug", "release"}

\* the heuristic handed to the search of algorithm a
h(a, to, v) ==
    IF a = "Dijkstra" THEN zero_heuristic(v) ELSE octile_heuristic(to, 1, v)

\* the expansion with the NoCornerCutting diagonals tested on the diagonal
\* cell alone
expand_unchecked_cutting(a, n) ==
    IF a = "Jps" THEN JpsExpandUnchecked(map, tmap, policy.goal, n.id, n.parent)
    ELSE NccEdgesCutting(get_neighbors_unchecked(map, n.id[1], n.id[2]),
                         n.id[1], n.id[2])

\* expansion_policy.expand_unchecked(n, &mut edges) for algorithm a
expand_unchecked(a, n) ==
    IF a = "Jps" THEN JpsExpandUnchecked(map, tmap, policy.goal, n.id, n.parent)
    ELSE NccExpandUnchecked(map, n.id)

RECURSIVE relax(_, _, _, _, _, _, _)
RECURSIVE relax_edge(_, _, _, _, _, _, _, _, _)
\* astar_unchecked: the body of `for edge in edges.drain(..)` for edge k, gen
\* being what generate_unchecked(edge.destination) gave and g the new cost
relax_edge(st, edges, k, parent_g, parent_id, a, build, gen, g) ==
    IF gen.trap # "no"
    THEN [heap |-> st.heap, pool |-> st.pool, trap |-> gen.trap]
    ELSE IF g < gen.pool.grid[gen.idx + 1].g
    THEN relax(push([heap |-> st.heap,
                     pool |-> [gen.pool EXCEPT !.grid[gen.idx + 1] =
                                 [@ EXCEPT !.g = g,
                                           !.lb = g + h(a, inst.to,
                                                        gen.pool.grid[gen.idx + 1].id),
                                           !.parent = Some(parent_id)]]],
                    gen.pool.grid[gen.idx + 1].id),
               edges, k + 1, parent_g, parent_id, a, build)
    ELSE relax([heap |-> st.heap, pool |-> gen.pool],
               edges, k + 1, parent_g, parent_id, a, build)

\* astar_unchecked: the loop `for edge in edges.drain(..)`, from edge k on;
\* st = [heap, pool] and the result has a field trap: "no", or how the loop
\* was cut short
relax(st, edges, k, parent_g, parent_id, a, build) ==
    IF k > Len(edges) THEN [heap |-> st.heap, pool |-> st.pool, trap |-> "no"]
    ELSE relax_edge(st, edges, k, parent_g, parent_id, a, build,
                    generate_unchecked(st.pool, edges[k].destination, build),
                    parent_g + edges[k].cost)

\* the prologue with the source's g and lb set to the cost of one step
astar_prologue_one(p, source) ==
    LET p1 == generate(reset(p), source)
        idx == pool_locate(p1, source[1], source[2])
        p2 == [p1 EXCEPT !.grid[idx + 1] = [@ EXCEPT !.g = ONE, !.lb = ONE]]
    IN  push([heap |-> <<>>, pool |-> p2], source)

\* astar_unchecked up to the main loop: reset the pool, make the queue,
\* generate the source, zero its g and lb, decrease_key
astar_prologue(p, source) ==
    LET p1 == generate(reset(p), source)
        idx == pool_locate(p1, source[1], source[2])
        p2 == [p1 EXCEPT !.grid[idx + 1] = [@ EXCEPT !.g = 0, !.lb = 0]]
    IN  push([heap |-> <<>>, pool |-> p2], source)

\* scen.rs main: the length read from the pool after a search
read_len(p, to) ==
    IF bounds_check(p, to[1], to[2])
    THEN LET n == pool_get(p, to[1], to[2])
         IN  IF n = None THEN None ELSE Some(n[1].g)
    ELSE None


(* The octile grid graph, stated from the map's cells alone: a cardinal     *)
(* step costs 1 and needs the target free, a diagonal step costs sqrt(2)   *)
(* and needs the target and both flanking cells free.                      *)

Cells(w, ht) == (0 .. w - 1) \X (0 .. ht - 1)
PaddedCells(w, ht) == (-1 .. w) \X (-1 .. ht)

Free(m, c) == unpadded_bounds_check(m, c[1], c[2]) /\ ~get(m, c[1], c[2])

\* the eight steps of the octile grid
Steps ==
    << <<-1, -1>>, <<0, -1>>, <<1, -1>>, <<-1, 0>>,
       <<1, 0>>, <<-1, 1>>, <<0, 1>>, <<1, 1>> >>

StepOk(m, u, d) ==
    /\ Free(m, <<u[1] + d[1], u[2] + d[2]>>)
    /\ (d[1] # 0 /\ d[2] # 0) =>
          Free(m, <<u[1] + d[1], u[2]>>) /\ Free(m, <<u[1], u[2] + d[2]>>)

StepCost(d) == IF d[1] # 0 /\ d[2] # 0 THEN SQRT_2 ELSE ONE

\* the cells of m in row-major order: cell <<x, y>> is element x + y*width + 1
CellAt(m, i) == <<(i - 1) % m.width, (i - 1) \div m.width>>
CellIx(m, c) == c[1] + c[2] * m.width + 1

\* the cost of reaching a cell from cell u over the step d, from the costs in ds
Via(m, ds, u, d) ==
    IF /\ unpadded_bounds_check(m, u[1], u[2])
       /\ ds[CellIx(m, u)] < INFINITY
       /\ StepOk(m, u, d)
    THEN ds[CellIx(m, u)] + StepCost(d)
    ELSE INFINITY

\* the least of acc and the costs of reaching c over the steps k .. 8
RECURSIVE Best(_, _, _, _, _)
Best(m, ds, c, k, acc) ==
    IF k > Len(Steps) THEN acc
    ELSE Best(m, ds, c, k + 1,
              Min({acc, Via(m, ds, <<c[1] - Steps[k][1], c[2] - Steps[k][2]>>,
                            Steps[k])}))

\* one round of Bellman-Ford over the cells i .. width*height of m
RECURSIVE Round(_, _, _)
Round(m, ds, i) ==
    IF i > m.width * m.height THEN <<>>
    ELSE <<Best(m, ds, CellAt(m, i), 1, ds[i])>> \o Round(m, ds, i + 1)

RECURSIVE Rounds(_, _, _, _)
Rounds(m, ds, nxt, k) ==
    IF k = 0 \/ nxt = ds THEN nxt ELSE Rounds(m, nxt, Round(m, nxt, 1), k - 1)

RECURSIVE Start(_, _, _)
Start(m, src, i) ==
    IF i > m.width * m.height THEN <<>>
    ELSE <<IF CellAt(m, i) = src THEN 0 ELSE INFINITY>> \o Start(m, src, i + 1)

\* the shortest-path costs from src to the cells of m in row-major order,
\* INFINITY where there is no path
Dist(m, src) ==
    Rounds(m, Start(m, src, 1), Round(m, Start(m, src, 1), 1), m.width * m.height)

\* the shortest-path cost to cell c of the instance's map from its source
DistTo(c) ==
    IF unpadded_bounds_check(map, c[1], c[2]) THEN dist[CellIx(map, c)] ELSE INFINITY


\* the end-to-end scenarios of the specification: maps with their instance
Scenarios ==
    { [w |-> 5, ht |-> 5, blocked |-> {}, from |-> <<0, 0>>, to |-> <<4, 4>>],
      [w |-> 5, ht |-> 5,
       blocked |-> {<<1, 1>>, <<2, 1>>, <<3, 1>>, <<1, 3>>, <<2, 3>>, <<3, 3>>},
       from |-> <<0, 0>>, to |-> <<4, 4>>],
      [w |-> 5, ht |-> 5,
       blocked |-> {<<4, 0>>, <<3, 1>>, <<2, 2>>, <<1, 3>>, <<0, 4>>},
       from |-> <<0, 0>>, to |-> <<4, 4>>],
      [w |-> 5, ht |-> 5,
       blocked |-> {<<1, 0>>, <<1, 1>>, <<1, 2>>, <<1, 3>>},
       from |-> <<0, 0>>, to |-> <<2, 0>>],
      [w |-> 1, ht |-> 10, blocked |-> {}, from |-> <<0, 0>>, to |-> <<0, 9>>] }

---------------------------------------------------------------------------
(* DirectedGraph (pathfinding/src/domains/directed_graph.rs).  A vertex id   *)
(* is its 0-based index into vertices.                                       *)

DirectedGraphNew == [vertices |-> <<>>, edges |-> 0]

\* the graph after add_vertex; the id it returns is the old length
add_vertex(g) ==
    [g EXCEPT !.vertices = Append(@, [incoming |-> <<>>, outgoing |-> <<>>])]

\* Vec::insert(i, e), i 0-based
InsertAt(s, i, e) == SubSeq(s, 1, i) \o <<e>> \o SubSeq(s, i + 1, Len(s))

\* es.binary_search_by_key(&key, |e| e.destination) on a list sorted by
\* destination: Ok(i) with the position of a match, Err(i) with the position
\* the key would be inserted at
binary_search_by_key(es, key) ==
    IF \E i \in 1 .. Len(es) : es[i].destination = key
    THEN [ok |-> TRUE,
          i |-> Min({ i \in 1 .. Len(es) : es[i].destination = key }) - 1]
    ELSE [ok |-> FALSE,
          i |-> Cardinality({ i \in 1 .. Len(es) : es[i].destination < key })]

\* the arms of the two matches of add_edge: overwrite the cost of the entry
\* found, or insert a new entry at the position found
put_edge(es, key, cost) ==
    LET r == binary_search_by_key(es, key)
    IN  IF r.ok THEN [es EXCEPT ![r.i + 1].cost = cost]
        ELSE InsertAt(es, r.i, Edge(key, cost))

\* add_edge past its assertion (from and to exist): the entry for to in the
\* outgoing list of from, then the entry for from in the incoming list of from
add_edge(g, from, to, cost) ==
    LET found == binary_search_by_key(g.vertices[from + 1].outgoing, to).ok
        g1 == [g EXCEPT !.vertices[from + 1].outgoing = put_edge(@, to, cost),
                        !.edges = IF found THEN @ ELSE @ + 1]
    IN  [g1 EXCEPT !.vertices[from + 1].incoming = put_edge(@, from, cost)]

\* the first loop of try_add_edges from triple k on: both pushes of every
\* triple up to the first one that names a missing vertex
RECURSIVE push_edges(_, _, _)
push_edges(vs, edges, k) ==
    IF k > Len(edges) THEN vs
    ELSE IF edges[k][1] >= Len(vs) \/ edges[k][2] >= Len(vs) THEN vs
    ELSE LET from == edges[k][1]
             to == edges[k][2]
             v1 == [vs EXCEPT ![from + 1].outgoing =
                        Append(@, Edge(to, edges[k][3]))]
         IN  push_edges([v1 EXCEPT ![to + 1].outgoing =
                             Append(@, Edge(from, edges[k][3]))],
                        edges, k + 1)

\* sort_by_key(|e| e.destination): a stable sort
RECURSIVE sort_by_key(_)
sort_by_key(es) ==
    IF es = <<>> THEN <<>>
    ELSE LET rest == sort_by_key(SubSeq(es, 1, Len(es) - 1))
             e == es[Len(es)]
         IN  InsertAt(rest,
                      Cardinality({ i \in 1 .. Len(rest) :
                                      rest[i].destination <= e.destination }),
                      e)

\* dedup_by with the swap of try_add_edges, from element k on with the
\* elements kept so far: an element of the destination of the last one kept
\* takes its place
RECURSIVE dedup_by(_, _, _)
dedup_by(es, k, kept) ==
    IF k > Len(es) THEN kept
    ELSE IF kept # <<>> /\ kept[Len(kept)].destination = es[k].destination
    THEN dedup_by(es, k + 1, [kept EXCEPT ![Len(kept)] = es[k]])
    ELSE dedup_by(es, k + 1, Append(kept, es[k]))

RECURSIVE count_outgoing(_, _)
count_outgoing(vs, k) ==
    IF k > Len(vs) THEN 0 ELSE Len(vs[k].outgoing) + count_outgoing(vs, k + 1)

\* the result of try_add_edges: Ok iff every triple names existing vertices
try_add_edges_ok(g, edges) ==
    \A k \in 1 .. Len(edges) :
        edges[k][1] < Len(g.vertices) /\ edges[k][2] < Len(g.vertices)

\* the graph after try_add_edges
try_add_edges(g, edges) ==
    LET pushed == push_edges(g.vertices, edges, 1)
        vs == [k \in 1 .. Len(pushed) |->
                 [incoming |-> dedup_by(sort_by_key(pushed[k].incoming), 1, <<>>),
                  outgoing |-> dedup_by(sort_by_key(pushed[k].outgoing), 1, <<>>)]]
    IN  [vertices |-> vs, edges |-> count_outgoing(vs, 1)]

outgoing_edges(g, vertex) == g.vertices[vertex + 1].outgoing
incoming_edges(g, vertex) == g.vertices[vertex + 1].incoming

---------------------------------------------------------------------------
(* WeightedGrid (src/domains/weighted_grid.rs): cells is the vector of the   *)
(* padded rows, one padding entry at the end of each row, a padding row      *)
(* above and below and one entry more; a cell is an Option of a weight.      *)

WeightedGridNew(width, height) ==
    [width |-> width, height |-> height,
     cells |-> [i \in 1 .. (width + 1) * (height + 2) + 1 |-> None]]

weighted_locate(g, x, y) == (y + 1) * (g.width + 1) + (x + 1)

\* cells.get_unchecked(i): the entry; where i is outside cells the read is
\* undefined and yields junk, whatever the caller supposes it to be
cell_value(g, i, junk) ==
    IF i \in 0 .. Len(g.cells) - 1 THEN g.cells[i + 1] ELSE junk

weighted_get_unchecked(g, x, y) == g.cells[weighted_locate(g, x, y) + 1]

\* the grid after *get_mut(x, y) = v, past its bounds check
weighted_set(g, x, y, v) ==
    [g EXCEPT !.cells[weighted_locate(g, x, y) + 1] = v]

\* the indices get_neighborhood_unchecked reads, field by field
neighborhood_index(g, x, y) ==
    LET idx == weighted_locate(g, x, y)
        padded_width == g.width - 1
    IN  [nw |-> idx - padded_width - 1, n |-> idx - padded_width,
         ne |-> idx - padded_width + 1,
         w |-> idx - 1, c |-> idx, e |-> idx + 1,
         sw |-> idx + padded_width - 1, s |-> idx + padded_width,
         se |-> idx + padded_width + 1]

Fields == {"nw", "n", "ne", "w", "c", "e", "sw", "s", "se"}

get_neighborhood_unchecked(g, x, y, junk) ==
    [f \in Fields |-> cell_value(g, neighborhood_index(g, x, y)[f], junk)]

\* the obstacle sets of the maps of w by ht cells: at most MaxBlocked cells
Obstacles(w, ht) ==
    { bb \in SUBSET Cells(w, ht) : Cardinality(bb) <= MaxBlocked }

\* the state after the map is loaded (read_map) and transposed (create_tmap)
\* and the pool p made for it, no search run yet
Loaded(m, tm, p, ds, from, to) ==
    /\ map = m
    /\ tmap = tm
    /\ pool = p
    /\ heap = <<>>
    /\ policy = [goal |-> <<-1, -1>>]
    /\ inst = [from |-> from, to |-> to]
    /\ alg = 0
    /\ pc = "idle"
    /\ node = None
    /\ len = <<>>
    /\ call = [op |-> "new", id |-> <<0, 0>>, fresh |-> FALSE]
    /\ ret = None
    /\ touched = {}
    /\ dist = ds
    /\ reads = {}
    /\ graph = DirectedGraphNew
    /\ wgrid = [grid |-> WeightedGridNew(1, 1), idx |-> {}]

\* the map of w by ht cells with the cells of blocked obstructed, and an
\* instance from the source to one of the goals tos
LoadedMap(w, ht, blocked, from, tos) ==
    \E m \in {SetAll(BitGridNew(w, ht), blocked, TRUE)} :
    \E tm \in {create_tmap(m)}, ds \in {Dist(m, from)} :
    \E to \in tos : Loaded(m, tm, GridPoolNew(w, ht), ds, from, to)

\* every map up to the bounds with every instance on it (the source a cell of
\* the map, the goal any coordinate of the map or of the ring round it), and
\* the scenarios
Init ==
    \/ \E w \in 1 .. MaxW, ht \in 1 .. MaxH :
       \E b \in Obstacles(w, ht), f \in Cells(w, ht) :
           LoadedMap(w, ht, b, f, PaddedCells(w, ht))
    \/ \E su \in Scenarios :
           LoadedMap(su.w, su.ht, su.blocked, su.from, {su.to})

\* util.rs grid_search with the NoCornerCutting policy (Dijkstra, AStar):
\* the assertions hold by construction of the pool and of inst.from
GridSearch ==
    /\ pc \in {"idle", "done"}
    /\ alg < 2
    /\ pool.width >= map.width /\ pool.height >= map.height
    /\ unpadded_bounds_check(map, inst.from[1], inst.from[2])
    /\ \E q \in {astar_prologue(pool, inst.from)} :
         pool' = q.pool /\ heap' = q.heap
    /\ alg' = alg + 1
    /\ pc' = "searching"
    /\ node' = None
    /\ UNCHANGED <<graph, wgrid,
                   map, tmap, policy, inst, len, call, ret, touched, dist, reads>>

\* JpsExpansionPolicy::search
JpsSearch ==
    /\ pc \in {"idle", "done"}
    /\ alg = 2
    /\ pool.width >= map.width /\ pool.height >= map.height
    /\ unpadded_bounds_check(map, inst.from[1], inst.from[2])
    /\ policy' = [policy EXCEPT !.goal = inst.to]
    /\ \E q \in {astar_prologue(pool, inst.from)} :
         pool' = q.pool /\ heap' = q.heap
    /\ alg' = alg + 1
    /\ pc' = "searching"
    /\ node' = None
    /\ UNCHANGED <<graph, wgrid,
                   map, tmap, inst, len, call, ret, touched, dist, reads>>

\* main loop: queue.pop returns None, the loop and the search end
PopNone ==
    /\ pc = "searching"
    /\ heap = <<>>
    /\ pc' = "done"
    /\ node' = None
    /\ len' = Append(len, read_len(pool, inst.to))
    /\ UNCHANGED <<graph, wgrid,
                   map, tmap, pool, heap, policy, inst, alg, call, ret, touched,
                   dist, reads>>

\* the node popped by the main loop, its expansion counter incremented
popped(r) ==
    LET v == r.ret[1]
        idx == pool_locate(r.pool, v[1], v[2])
    IN  [pool |-> [r.pool EXCEPT !.grid[idx + 1].expansions = @ + 1],
         n |-> [r.pool.grid[idx + 1] EXCEPT !.expansions = @ + 1]]

\* main loop: the popped node is the goal, break
PopGoal ==
    /\ pc = "searching"
    /\ heap # <<>>
    /\ \E r \in {pop([heap |-> heap, pool |-> pool])} :
       \E pn \in {popped(r)} :
           /\ pn.n.id = inst.to
           /\ heap' = r.heap
           /\ pool' = pn.pool
           /\ node' = Some(pn.n)
           /\ len' = Append(len, read_len(pn.pool, inst.to))
    /\ pc' = "done"
    /\ UNCHANGED <<graph, wgrid,
                   map, tmap, policy, inst, alg, call, ret, touched, dist, reads>>

\* the outcomes of the relaxation loop over the builds: when the debug build
\* meets no id outside the pool the release build does what it does
relax_builds(st, edges, parent_g, parent_id, a, debug) ==
    IF debug.trap = "no" THEN {debug}
    ELSE {debug, relax(st, edges, 1, parent_g, parent_id, a, "release")}

relaxed(st, edges, parent_g, parent_id, a) ==
    relax_builds(st, edges, parent_g, parent_id, a,
                 relax(st, edges, 1, parent_g, parent_id, a, "debug"))

\* main loop: the popped node is expanded and its edges relaxed
Expand ==
    /\ pc = "searching"
    /\ heap # <<>>
    /\ \E r \in {pop([heap |-> heap, pool |-> pool])} :
       \E pn \in {popped(r)} :
         /\ pn.n.id # inst.to
         /\ \E st \in relaxed([heap |-> r.heap, pool |-> pn.pool],
                               expand_unchecked(Algorithms[alg], pn.n),
                               pn.n.g, pn.n.id, Algorithms[alg]) :
               /\ heap' = st.heap
               /\ pool' = st.pool
               /\ node' = Some(pn.n)
               /\ pc' = IF st.trap = "no" THEN "searching" ELSE st.trap
    /\ UNCHANGED <<graph, wgrid,
                   map, tmap, policy, inst, alg, len, call, ret, touched, dist,
                   reads>>

Next == GridSearch \/ JpsSearch \/ PopNone \/ PopGoal \/ Expand

Spec == Init /\ [][Next]_vars

---------------------------------------------------------------------------
(* The queue on its own, as astar_unchecked makes it on the pool it has just *)
(* reset: a client that generates a node, writes its key and hands it to     *)
(* push, pops, and clears.                                                   *)

InitHeap ==
    \E m \in {BitGridNew(MaxNodes, 1)} :
        Loaded(m, create_tmap(m), reset(GridPoolNew(MaxNodes, 1)),
               Dist(m, <<0, 0>>), <<0, 0>>, <<0, 0>>)

\* the keys a client gives its nodes: [lb, g], costs of paths of at most one
\* step with a heuristic estimate of at most one step
Keys ==
    { [lb |-> 0, g |-> 0], [lb |-> ONE, g |-> 0], [lb |-> ONE, g |-> ONE],
      [lb |-> SQRT_2, g |-> ONE] }

\* node.g = g; node.lb = lb on the node generate(v) returns
write_key(p, v, lb, g) ==
    [generate(p, v) EXCEPT !.grid[pool_locate(p, v[1], v[2]) + 1] =
        [@ EXCEPT !.g = g, !.lb = lb]]

HPush ==
    \E v \in Cells(pool.width, pool.height), k \in Keys :
    \E q \in {push([heap |-> heap, pool |-> write_key(pool, v, k.lb, k.g)], v)} :
        /\ heap' = q.heap
        /\ pool' = q.pool
        /\ call' = [op |-> "push", id |-> v, fresh |-> FALSE]
        /\ ret' = None
        /\ UNCHANGED <<graph, wgrid,
                       map, tmap, policy, inst, alg, pc, node, len, touched, dist,
                   reads>>

HPop ==
    \E r \in {pop([heap |-> heap, pool |-> pool])} :
        /\ heap' = r.heap
        /\ pool' = r.pool
        /\ call' = [op |-> "pop", id |-> <<0, 0>>, fresh |-> FALSE]
        /\ ret' = r.ret
        /\ UNCHANGED <<graph, wgrid,
                       map, tmap, policy, inst, alg, pc, node, len, touched, dist,
                   reads>>

HClear ==
    /\ heap' = clear([heap |-> heap, pool |-> pool]).heap
    /\ call' = [op |-> "clear", id |-> <<0, 0>>, fresh |-> FALSE]
    /\ ret' = None
    /\ UNCHANGED <<graph, wgrid,
                   map, tmap, pool, policy, inst, alg, pc, node, len, touched,
                   dist, reads>>

NextHeap == HPush \/ HPop \/ HClear

SpecHeap == InitHeap /\ [][NextHeap]_vars

(* The queue over several searches on one pool: astar_unchecked resets the  *)
(* pool and makes a new queue, while the nodes keep the heap index the      *)
(* search before left in them.                                              *)

\* the searches run on the pool after the first
MaxResets == 1

\* the keys of source nodes
QueueKeys == { k \in Keys : k.g = 0 }

\* what the node of v carries when it is handed to push: "queued" when v is
\* in the heap; else "reset" when its heap index is that of a slot another
\* vertex holds and was left in it before the last reset of the pool (the
\* node not generated since, the index not the 0 of a new node), "old" when
\* it was left there since (by pop or clear), "none" otherwise
stale_index(hp, p, v) ==
    IF \E i \in DOMAIN hp : hp[i] = v THEN "queued"
    ELSE IF p.grid[pool_locate(p, v[1], v[2]) + 1].pqueue_location >= Len(hp)
    THEN "none"
    ELSE IF pool_get(p, v[1], v[2]) # None THEN "old"
    ELSE IF p.grid[pool_locate(p, v[1], v[2]) + 1].pqueue_location >= 1
    THEN "reset" ELSE "none"

\* push as in HPush, the call recording what the node carried before it
QPush ==
    \E v \in Cells(pool.width, pool.height), k \in QueueKeys :
    \E q \in {push([heap |-> heap, pool |-> write_key(pool, v, k.lb, k.g)], v)} :
        /\ heap' = q.heap
        /\ pool' = q.pool
        /\ call' = [op |-> "push", id |-> v, fresh |-> FALSE,
                    stale |-> stale_index(heap, pool, v)]
        /\ ret' = None
        /\ UNCHANGED <<graph, wgrid,
                       map, tmap, policy, inst, alg, pc, node, len, touched, dist,
                   reads>>

\* astar_unchecked: pool.reset(); let mut queue = PriorityQueue::new()
QReset ==
    /\ pool.search_num <= MaxResets
    /\ pool' = reset(pool)
    /\ heap' = <<>>
    /\ call' = [op |-> "reset", id |-> <<0, 0>>, fresh |-> FALSE]
    /\ ret' = None
    /\ UNCHANGED <<graph, wgrid,
                   map, tmap, policy, inst, alg, pc, node, len, touched, dist,
                   reads>>

NextQueue == QPush \/ HPop \/ HClear \/ QReset

SpecQueue == InitHeap /\ [][NextQueue]_vars

---------------------------------------------------------------------------
(* The pool on its own: a client that resets it, generates nodes, reads them *)
(* with get and writes to the nodes it has generated, as a search does.      *)

InitPool == LoadedMap(MaxPoolW, 1, {}, <<0, 0>>, {<<0, 0>>})

PReset ==
    /\ pool' = reset(pool)
    /\ call' = [op |-> "reset", id |-> <<0, 0>>, fresh |-> FALSE]
    /\ ret' = None
    /\ touched' = {}
    /\ UNCHANGED <<graph, wgrid,
                   map, tmap, heap, policy, inst, alg, pc, node, len, dist, reads>>

PGenerate ==
    \E v \in Cells(pool.width, pool.height) :
        /\ pool' = generate(pool, v)
        /\ call' = [op |-> "generate", id |-> v, fresh |-> v \notin touched]
        /\ ret' = Some(pool'.grid[pool_locate(pool, v[1], v[2]) + 1])
        /\ touched' = touched \cup {v}
        /\ UNCHANGED <<graph, wgrid,
                       map, tmap, heap, policy, inst, alg, pc, node, len, dist, reads>>

PGet ==
    \E v \in Cells(pool.width, pool.height) :
        /\ call' = [op |-> "get", id |-> v, fresh |-> v \notin touched]
        /\ ret' = pool_get(pool, v[1], v[2])
        /\ UNCHANGED <<graph, wgrid,
                       map, tmap, pool, heap, policy, inst, alg, pc, node, len,
                       touched, dist, reads>>

\* what a search writes to a node it has generated: its cost, its parent, its
\* place in the queue, and the count of its expansions
PWrite ==
    \E v \in touched :
        /\ pool' = [pool EXCEPT !.grid[pool_locate(pool, v[1], v[2]) + 1] =
                     [@ EXCEPT !.g = ONE, !.lb = ONE, !.parent = Some(v),
                               !.pqueue_location = 1, !.expansions = 1]]
        /\ call' = [op |-> "write", id |-> v, fresh |-> FALSE]
        /\ ret' = None
        /\ UNCHANGED <<graph, wgrid,
                       map, tmap, heap, policy, inst, alg, pc, node, len, touched,
                   dist, reads>>

NextPool == PReset \/ PGenerate \/ PGet \/ PWrite

SpecPool == InitPool /\ [][NextPool]_vars

---------------------------------------------------------------------------
(* The grid on its own.  A client makes a BitGrid and fills it with set, as  *)
(* read_map does, reading it with get, get_row, get_row_upper and            *)
(* get_neighbors; it then builds the transpose and expands cells with the    *)
(* policies that borrow the map.  `touched` is the boolean matrix of the     *)
(* tests (canonical_grid): the cells whose last successful set was to true.  *)
(* pc is "idle" while the map is filled, "loaded" once it is borrowed.       *)

\* the state in which map m (with the matrix it was filled from) and tmap tm
\* are in hand
GridLoaded(m, tm, matrix, phase, to) ==
    /\ map = m
    /\ tmap = tm
    /\ pool = GridPoolNew(m.width, m.height)
    /\ heap = <<>>
    /\ policy = [goal |-> <<-1, -1>>]
    /\ inst = [from |-> <<0, 0>>, to |-> to]
    /\ alg = 0
    /\ pc = phase
    /\ node = None
    /\ len = <<>>
    /\ call = [op |-> "new", id |-> <<0, 0>>, panicked |-> FALSE]
    /\ ret = None
    /\ touched = matrix
    /\ dist = <<>>
    /\ reads = {}
    /\ graph = DirectedGraphNew
    /\ wgrid = [grid |-> WeightedGridNew(1, 1), idx |-> {}]

\* BitGrid::new(w, ht) for the sizes up to the bounds and for the wide row;
\* and the maps of the scenarios, read and transposed
InitGrid ==
    \/ \E d \in ((1 .. MaxW) \X (1 .. MaxH)) \cup {<<WideW, 1>>} :
           GridLoaded(BitGridNew(d[1], d[2]), BitGridNew(d[2], d[1]), {},
                      "idle", <<0, 0>>)
    \/ \E su \in Scenarios :
       \E m \in {SetAll(BitGridNew(su.w, su.ht), su.blocked, TRUE)} :
           GridLoaded(m, create_tmap(m), su.blocked, "loaded", su.to)

\* the coordinates the client calls the grid with: the cells and the padding
\* round the origin up to the bounds and at the far end of the rows, and one
\* step beyond the padding on each side
GridCoords(g) ==
    (((-1 .. Min({g.width, MaxW})) \cup (g.width - 1 .. g.width))
     \X (-1 .. g.height))
    \cup {<<-2, 0>>, <<g.width + 1, 0>>, <<0, -2>>, <<0, g.height + 1>>}

\* the goals a policy is given: the first and the last cell, the goal of the
\* instance, and the goal JpsExpansionPolicy::new starts with
GridGoals(g) ==
    {<<0, 0>>, <<g.width - 1, g.height - 1>>, inst.to, <<-1, -1>>}

\* A read leaves the grid as it is and depends on nothing but the grid, so a
\* call made after a read reaches no state that the same call made right
\* after the last write does not: the calls are taken from the states the
\* writes (new, set, create_tmap) lead to.  A call that panicked is the
\* client's last.
AfterWrite == call.op \in {"new", "set", "create_tmap"} /\ ~call.panicked

\* BitGrid::set
GSet ==
    /\ pc = "idle"
    /\ AfterWrite
    /\ \E c \in GridCoords(map), v \in BOOLEAN :
        /\ IF unpadded_bounds_check(map, c[1], c[2])
           THEN /\ map' = set_unchecked(map, c[1], c[2], v)
                /\ touched' = IF v THEN touched \cup {c} ELSE touched \ {c}
                /\ Cardinality(touched') <= MaxSet
           ELSE UNCHANGED <<map, touched>>
        /\ call' = [op |-> "set", id |-> c, v |-> v,
                    panicked |-> ~unpadded_bounds_check(map, c[1], c[2])]
    /\ ret' = None
    /\ reads' = {}
    /\ UNCHANGED <<graph, wgrid,
                   tmap, pool, heap, policy, inst, alg, pc, node, len, dist>>

\* BitGrid::get
GGet ==
    /\ pc = "idle"
    /\ AfterWrite
    /\ \E c \in GridCoords(map) :
        /\ call' = [op |-> "get", id |-> c,
                    panicked |-> ~padded_bounds_check(map, c[1], c[2])]
        /\ ret' = IF padded_bounds_check(map, c[1], c[2])
                  THEN Some(get_unchecked(map, c[1], c[2])) ELSE None
    /\ reads' = {}
    /\ UNCHANGED <<graph, wgrid,
                   map, tmap, pool, heap, policy, inst, alg, pc, node, len,
                   touched, dist>>

\* BitGrid::get_row
GRow ==
    /\ pc = "idle"
    /\ AfterWrite
    /\ \E c \in GridCoords(map) :
        /\ call' = [op |-> "get_row", id |-> c,
                    panicked |-> ~padded_bounds_check(map, c[1], c[2])]
        /\ IF padded_bounds_check(map, c[1], c[2])
           THEN /\ ret' = Some(get_row_unchecked(map, c[1], c[2]))
                /\ reads' = {Read("map", c[1], c[2], FALSE)}
           ELSE ret' = None /\ reads' = {}
    /\ UNCHANGED <<graph, wgrid,
                   map, tmap, pool, heap, policy, inst, alg, pc, node, len,
                   touched, dist>>

\* BitGrid::get_row_upper
GRowUpper ==
    /\ pc = "idle"
    /\ AfterWrite
    /\ \E c \in GridCoords(map) :
        /\ call' = [op |-> "get_row_upper", id |-> c,
                    panicked |-> ~padded_bounds_check(map, c[1], c[2])]
        /\ IF padded_bounds_check(map, c[1], c[2])
           THEN /\ ret' = Some(get_row_upper_unchecked(map, c[1], c[2]))
                /\ reads' = {Read("map", c[1], c[2], TRUE)}
           ELSE ret' = None /\ reads' = {}
    /\ UNCHANGED <<graph, wgrid,
                   map, tmap, pool, heap, policy, inst, alg, pc, node, len,
                   touched, dist>>

\* BitGrid::get_neighbors
GNeighbors ==
    /\ pc = "idle"
    /\ AfterWrite
    /\ \E c \in GridCoords(map) :
        /\ call' = [op |-> "get_neighbors", id |-> c,
                    panicked |-> ~unpadded_bounds_check(map, c[1], c[2])]
        /\ IF unpadded_bounds_check(map, c[1], c[2])
           THEN /\ ret' = Some(get_neighbors_unchecked(map, c[1], c[2]))
                /\ reads' = neighbors_reads("map", c[1], c[2])
           ELSE ret' = None /\ reads' = {}
    /\ UNCHANGED <<graph, wgrid,
                   map, tmap, pool, heap, policy, inst, alg, pc, node, len,
                   touched, dist>>

\* create_tmap(&map); from here on the map is borrowed by the policies
GCreateTmap ==
    /\ pc = "idle"
    /\ AfterWrite
    /\ tmap' = create_tmap(map)
    /\ pc' = "loaded"
    /\ call' = [op |-> "create_tmap", id |-> <<0, 0>>, panicked |-> FALSE]
    /\ ret' = None
    /\ reads' = {}
    /\ UNCHANGED <<graph, wgrid,
                   map, pool, heap, policy, inst, alg, node, len, touched, dist>>

\* NoCornerCutting::expand: get_neighbors makes the bounds check
GNcc ==
    /\ pc = "loaded"
    /\ AfterWrite
    /\ \E c \in GridCoords(map) :
        /\ call' = [op |-> "ncc", id |-> c,
                    panicked |-> ~unpadded_bounds_check(map, c[1], c[2])]
        /\ IF unpadded_bounds_check(map, c[1], c[2])
           THEN /\ ret' = Some(NccExpandUnchecked(map, c))
                /\ reads' = neighbors_reads("map", c[1], c[2])
           ELSE ret' = None /\ reads' = {}
    /\ UNCHANGED <<graph, wgrid,
                   map, tmap, pool, heap, policy, inst, alg, pc, node, len,
                   touched, dist>>

\* OrthoEdges::edges
GOrtho ==
    /\ pc = "loaded"
    /\ AfterWrite
    /\ \E c \in GridCoords(map) :
        /\ call' = [op |-> "ortho", id |-> c,
                    panicked |-> ~unpadded_bounds_check(map, c[1], c[2])]
        /\ IF unpadded_bounds_check(map, c[1], c[2])
           THEN /\ ret' = Some(OrthoEdges(get_neighbors(map, c[1], c[2]),
                                          c[1], c[2]))
                /\ reads' = neighbors_reads("map", c[1], c[2])
           ELSE ret' = None /\ reads' = {}
    /\ UNCHANGED <<graph, wgrid,
                   map, tmap, pool, heap, policy, inst, alg, pc, node, len,
                   touched, dist>>

\* JpsExpansionPolicy::set_goal followed by expand of a node at c whose
\* parent lies in the direction of step d from it (None for d = 0); out of
\* bounds expand panics in get_neighbors whatever the goal and the parent,
\* and one goal and no parent stand for them all
GJps ==
    /\ pc = "loaded"
    /\ AfterWrite
    /\ \E c \in GridCoords(map) :
       \E goal \in IF unpadded_bounds_check(map, c[1], c[2])
                   THEN GridGoals(map) ELSE {inst.to},
          d \in IF unpadded_bounds_check(map, c[1], c[2])
                THEN (-1 .. 1) \X (-1 .. 1) ELSE {<<0, 0>>} :
        \E parent \in {IF d = <<0, 0>> THEN None
                        ELSE Some(<<c[1] + d[1], c[2] + d[2]>>)} :
        /\ policy' = [policy EXCEPT !.goal = goal]
        /\ call' = [op |-> "jps", id |-> c, parent |-> parent,
                    panicked |-> ~unpadded_bounds_check(map, c[1], c[2])]
        /\ IF unpadded_bounds_check(map, c[1], c[2])
           THEN /\ ret' = Some(JpsExpandUnchecked(map, tmap, goal, c, parent))
                /\ reads' = JpsReads(
                       canonical_successors(map, c, get_direction(c, parent)),
                       map, tmap, goal[1], goal[2], c[1], c[2])
           ELSE ret' = None /\ reads' = {}
    /\ UNCHANGED <<graph, wgrid,
                   map, tmap, pool, heap, inst, alg, pc, node, len, touched,
                   dist>>

\* one cardinal jump as expand_unchecked makes it: jump_plus_unchecked or
\* jump_minus_unchecked from the in-bounds cell c of the map towards East or
\* West, or, on the transpose with the coordinates swapped, South or North
GJump ==
    /\ pc = "loaded"
    /\ AfterWrite
    /\ \E c \in { cc \in GridCoords(map) :
                     unpadded_bounds_check(map, cc[1], cc[2]) },
          goal \in GridGoals(map),
          fn \in {"jump_plus", "jump_minus"},
          grid \in {"map", "tmap"} :
       \E a \in { IF grid = "map" THEN <<map, c, goal>>
                  ELSE <<tmap, <<c[2], c[1]>>, <<goal[2], goal[1]>> >> } :
        /\ call' = [op |-> fn, id |-> a[2], goal |-> a[3], grid |-> grid,
                    panicked |-> FALSE]
        /\ ret' = Some(IF fn = "jump_plus"
                       THEN jump_plus_unchecked(a[1], a[2][1], a[2][2],
                                                a[3][1], a[3][2])
                       ELSE jump_minus_unchecked(a[1], a[2][1], a[2][2],
                                                 a[3][1], a[3][2]))
        /\ reads' = jump_reads(a[1], grid, fn = "jump_minus",
                               a[2][1], a[2][2], 0)
    /\ UNCHANGED <<graph, wgrid,
                   map, tmap, pool, heap, policy, inst, alg, pc, node, len,
                   touched, dist>>

NextGrid ==
    GSet \/ GGet \/ GRow \/ GRowUpper \/ GNeighbors \/ GCreateTmap
    \/ GNcc \/ GOrtho \/ GJps

SpecGrid == InitGrid /\ [][NextGrid]_vars

(* The Jps expansion policy on maps that are read and transposed: the       *)
(* policy borrows the map, so that nothing writes to it any more.           *)

\* read_map and create_tmap for the maps up to the bounds, for the wide row
\* and for the scenarios
InitJps ==
    \/ \E d \in ((1 .. MaxW) \X (1 .. MaxH)) \cup {<<WideW, 1>>} :
       \E bb \in IF d[1] = WideW THEN {{}} ELSE Obstacles(d[1], d[2]) :
       \E m \in {SetAll(BitGridNew(d[1], d[2]), bb, TRUE)} :
           GridLoaded(m, create_tmap(m), bb, "loaded", <<0, 0>>)
    \/ \E su \in Scenarios :
       \E m \in {SetAll(BitGridNew(su.w, su.ht), su.blocked, TRUE)} :
           GridLoaded(m, create_tmap(m), su.blocked, "loaded", su.to)

NextJps == GJps \/ GJump

SpecJps == InitJps /\ [][NextJps]_vars

(* canonical_successors on every 3 x 3 neighbourhood: the maps of 3 x 3     *)
(* cells with any of the eight cells round the centre obstructed; the      *)
(* cells of the border have the padding in their neighbourhood.            *)

InitSucc ==
    \E bb \in SUBSET (Cells(3, 3) \ {<<1, 1>>}) :
    \E m \in {SetAll(BitGridNew(3, 3), bb, TRUE)} :
        GridLoaded(m, create_tmap(m), bb, "loaded", <<0, 0>>)

\* canonical_successors(map, c, get_direction(c, parent)) for the in-bounds
\* cell c and the parent in the direction of step d from it (None for d = 0)
GSuccessors ==
    /\ pc = "loaded"
    /\ AfterWrite
    /\ \E c \in Cells(map.width, map.height), d \in (-1 .. 1) \X (-1 .. 1) :
       \E parent \in {IF d = <<0, 0>> THEN None
                       ELSE Some(<<c[1] + d[1], c[2] + d[2]>>)} :
        /\ call' = [op |-> "canonical_successors", id |-> c, parent |-> parent,
                    panicked |-> FALSE]
        /\ ret' = Some(canonical_successors(map, c, get_direction(c, parent)))
        /\ reads' = neighbors_reads("map", c[1], c[2])
    /\ UNCHANGED <<graph, wgrid,
                   map, tmap, pool, heap, policy, inst, alg, pc, node, len,
                   touched, dist>>

NextSucc == GSuccessors

SpecSucc == InitSucc /\ [][NextSucc]_vars

---------------------------------------------------------------------------
(* The directed graph on its own: a client that adds vertices, adds edges    *)
(* one by one and in bulk.                                                   *)

MaxVertices == 2
\* add_edge is called while total_edges() is at most this, and try_add_edges
\* with a slice no longer than what total_edges() leaves of it
MaxEdges == 2

InitGraph ==
    \E m \in {BitGridNew(1, 1)} :
        Loaded(m, create_tmap(m), GridPoolNew(1, 1), <<>>, <<0, 0>>, <<0, 0>>)

\* the costs the client gives its edges
Costs == {ONE, SQRT_2}

\* the triples (from, to, cost) of the client: the vertices that can exist and
\* one that cannot
Triples == (0 .. MaxVertices) \X (0 .. MaxVertices) \X Costs

Batches(n) == UNION { [1 .. k -> Triples] : k \in 0 .. n }

DAddVertex ==
    /\ Len(graph.vertices) < MaxVertices
    /\ graph' = add_vertex(graph)
    /\ call' = [op |-> "add_vertex", panicked |-> FALSE]
    /\ ret' = Some(Len(graph.vertices))
    /\ UNCHANGED <<wgrid, map, tmap, pool, heap, policy, inst, alg, pc, node,
                   len, touched, dist, reads>>

DAddEdge ==
    /\ graph.edges <= MaxEdges
    /\ \E t \in Triples :
        /\ IF t[1] < Len(graph.vertices) /\ t[2] < Len(graph.vertices)
           THEN /\ graph' = add_edge(graph, t[1], t[2], t[3])
                /\ call' = [op |-> "add_edge", panicked |-> FALSE]
           ELSE /\ graph' = graph
                /\ call' = [op |-> "add_edge", panicked |-> TRUE]
        /\ ret' = None
    /\ UNCHANGED <<wgrid, map, tmap, pool, heap, policy, inst, alg, pc, node,
                   len, touched, dist, reads>>

DTryAddEdges ==
    /\ graph.edges <= MaxEdges
    /\ \E edges \in Batches(MaxEdges - graph.edges) :
        /\ graph' = try_add_edges(graph, edges)
        /\ call' = [op |-> "try_add_edges", panicked |-> FALSE]
        /\ ret' = Some(try_add_edges_ok(graph, edges))
        /\ pc' = IF try_add_edges_ok(graph, edges) THEN pc ELSE "failed"
    /\ UNCHANGED <<wgrid, map, tmap, pool, heap, policy, inst, alg, node, len,
                   touched, dist, reads>>

NextGraph == DAddVertex \/ DAddEdge \/ DTryAddEdges

SpecGraph == InitGraph /\ [][NextGraph]_vars

---------------------------------------------------------------------------
(* The weighted grid on its own: a client that makes a grid, writes weights  *)
(* through get_mut and reads through get and get_neighborhood.               *)

\* the coordinates the client calls the grid with: the cells, the padding and
\* a step beyond it on each side
WeightedCoords(g) ==
    ((-1 .. g.width) \X (-1 .. g.height))
        \cup {<<-2, 0>>, <<g.width + 1, 0>>, <<0, -2>>, <<0, g.height + 1>>}

\* the cells of the grid that hold a weight
Weighted(g) ==
    { c \in Cells(g.width, g.height) :
        weighted_get_unchecked(g, c[1], c[2]) # None }

WNew ==
    /\ \E w \in 1 .. MaxW, ht \in 1 .. MaxH :
           wgrid' = [grid |-> WeightedGridNew(w, ht), idx |-> {}]
    /\ call' = [op |-> "new", id |-> <<0, 0>>, panicked |-> FALSE]
    /\ ret' = None
    /\ UNCHANGED <<graph, map, tmap, pool, heap, policy, inst, alg, pc, node,
                   len, touched, dist, reads>>

\* *grid.get_mut(x, y) = Some(v)
WSet ==
    /\ \E c \in WeightedCoords(wgrid.grid), v \in Costs :
        /\ Cardinality(Weighted(wgrid.grid) \cup {c}) <= MaxSet
        /\ IF unpadded_bounds_check(wgrid.grid, c[1], c[2])
           THEN /\ wgrid' = [grid |-> weighted_set(wgrid.grid, c[1], c[2], Some(v)),
                             idx |-> {weighted_locate(wgrid.grid, c[1], c[2])}]
                /\ call' = [op |-> "get_mut", id |-> c, panicked |-> FALSE]
           ELSE /\ wgrid' = [wgrid EXCEPT !.idx = {}]
                /\ call' = [op |-> "get_mut", id |-> c, panicked |-> TRUE]
    /\ ret' = None
    /\ UNCHANGED <<graph, map, tmap, pool, heap, policy, inst, alg, pc, node,
                   len, touched, dist, reads>>

WGet ==
    /\ \E c \in WeightedCoords(wgrid.grid) :
        IF padded_bounds_check(wgrid.grid, c[1], c[2])
        THEN /\ wgrid' = [wgrid EXCEPT
                            !.idx = {weighted_locate(wgrid.grid, c[1], c[2])}]
             /\ call' = [op |-> "get", id |-> c, panicked |-> FALSE]
             /\ ret' = Some(weighted_get_unchecked(wgrid.grid, c[1], c[2]))
        ELSE /\ wgrid' = [wgrid EXCEPT !.idx = {}]
             /\ call' = [op |-> "get", id |-> c, panicked |-> TRUE]
             /\ ret' = None
    /\ UNCHANGED <<graph, map, tmap, pool, heap, policy, inst, alg, pc, node,
                   len, touched, dist, reads>>

WNeighborhood ==
    /\ \E c \in WeightedCoords(wgrid.grid), junk \in {None, Some(ONE)} :
        IF unpadded_bounds_check(wgrid.grid, c[1], c[2])
        THEN /\ wgrid' = [wgrid EXCEPT !.idx =
                            { neighborhood_index(wgrid.grid, c[1], c[2])[f] :
                                f \in Fields }]
             /\ call' = [op |-> "get_neighborhood", id |-> c,
                         panicked |-> FALSE]
             /\ ret' = Some(get_neighborhood_unchecked(wgrid.grid, c[1], c[2],
                                                        junk))
        ELSE /\ wgrid' = [wgrid EXCEPT !.idx = {}]
             /\ call' = [op |-> "get_neighborhood", id |-> c,
                         panicked |-> TRUE]
             /\ ret' = None
    /\ UNCHANGED <<graph, map, tmap, pool, heap, policy, inst, alg, pc, node,
                   len, touched, dist, reads>>

NextWeighted == WNew \/ WSet \/ WGet \/ WNeighborhood

SpecWeighted == InitGraph /\ [][NextWeighted]_vars

---------------------------------------------------------------------------
IsNcc == alg \in 1 .. 2
IsJps == alg = 3

---------------------------------------------------------------------------
\* C1: whenever the main loop of a search has popped a node, that node's g is
\* the shortest-path cost from the source to it: for the NoCornerCutting
\* graph with the zero heuristic (Dijkstra) and with the octile heuristic (A*),
\* and for the Jps search between unobstructed cells of the map.
C1_PoppedIsOptimal ==
    (node # None /\ (IsNcc \/ (IsJps /\ Free(map, inst.from) /\ Free(map, inst.to))))
        => node[1].g = DistTo(node[1].id)

\* a popped node that is neither the source nor next to it, reached over a
\* route that has to go round an obstacle
C1_Witness ==
    /\ IsNcc /\ node # None /\ pc = "searching"
    /\ node[1].g > octile_heuristic(inst.from, 1, node[1].id)
    /\ node[1].g >= ONE + ONE + ONE

\* C2: for an unobstructed in-bounds source and goal, the Jps search reaches
\* the goal exactly when the NoCornerCutting searches do and ends with the
\* same g at the goal as Dijkstra and as A*.
C2_JpsAgrees ==
    (Len(len) = Len(Algorithms) /\ Free(map, inst.from) /\ Free(map, inst.to))
        => len[3] = len[1] /\ len[3] = len[2]

\* the three searches have reached a goal that Jps got to through a jump
\* point and not in a straight line
C2_Witness ==
    /\ Len(len) = Len(Algorithms) /\ Free(map, inst.from) /\ Free(map, inst.to)
    /\ len[3] # None
    /\ len[3][1] > octile_heuristic(inst.from, 1, inst.to)

EdgesInBounds(p, edges) ==
    \A i \in DOMAIN edges :
        bounds_check(p, edges[i].destination[1], edges[i].destination[2])

\* C3: every edge the expansion policy produces for the node the main loop is
\* about to pop has its destination inside the pool.
C3_EdgesInBounds ==
    (pc = "searching" /\ heap # <<>> /\ heap[1] # inst.to) =>
        EdgesInBounds(pool, expand_unchecked(Algorithms[alg], unwrap_get(pool, heap[1])))

\* C4: the main loop of a search ends in no other way than by popping the
\* goal or by emptying the heap, each expansion returning.
C4_EndsByGoalOrEmptyHeap == pc \in {"idle", "searching", "done"}

\* C5: when the goal is not reachable (no path of the octile grid graph leads
\* to it, and for Jps it is no obstructed cell and no cell of the padding),
\* the search ends with the heap empty without having popped the goal, and
\* where the goal is a vertex of the pool the pool reports it as not reached:
\* get returns no node, and the node generate returns for it has g infinite
\* and no parent.
C5_Unreachable ==
    (/\ pc = "done"
     /\ DistTo(inst.to) = INFINITY
     /\ IsJps => Free(map, inst.to))
    => /\ heap = <<>>
       /\ node = None
       /\ bounds_check(pool, inst.to[1], inst.to[2]) =>
             /\ pool_get(pool, inst.to[1], inst.to[2]) = None
             /\ unwrap_get(generate(pool, inst.to), inst.to).g = INFINITY
             /\ unwrap_get(generate(pool, inst.to), inst.to).parent = None

\* the 5x5 anti-diagonal wall searched from (0,0) to (4,4) with the
\* NoCornerCutting expander has ended
C5_Witness ==
    /\ pc = "done" /\ IsNcc
    /\ map.width = 5 /\ map.height = 5
    /\ \A i \in 0 .. 4 : get(map, 4 - i, i)
    /\ inst = [from |-> <<0, 0>>, to |-> <<4, 4>>]
    /\ pool_get(pool, 3, 0) # None
    /\ pool_get(pool, 4, 4) = None

---------------------------------------------------------------------------
\* the (lb, -g) order of the queue: smaller lb first, larger g first on a tie
KeyLe(a, b) == a.lb < b.lb \/ (a.lb = b.lb /\ a.g >= b.g)

NodeOf(p, v) == p.grid[v[1] + v[2] * p.width + 1]

\* C6: after every push and every pop, the entry at the parent index (i-1)/2
\* of every non-root heap index i is less-or-equal to the entry at i under
\* the order lb ascending, then g descending.
C6_HeapOrder ==
    \A i \in 1 .. Len(heap) - 1 :
        KeyLe(NodeOf(pool, heap[(i - 1) \div 2 + 1]), NodeOf(pool, heap[i + 1]))

\* a full heap just popped from, holding a tie on lb between a parent and its
\* child
C6_Witness ==
    /\ call.op = "pop" /\ Len(heap) >= 2
    /\ \E i \in 1 .. Len(heap) - 1 :
          /\ NodeOf(pool, heap[(i - 1) \div 2 + 1]).lb = NodeOf(pool, heap[i + 1]).lb
          /\ NodeOf(pool, heap[(i - 1) \div 2 + 1]).g > NodeOf(pool, heap[i + 1]).g

\* C7: after every push and every pop, the node of the vertex stored at heap
\* index i has location i, for every index below the heap length.
C7_HeapIndex ==
    \A i \in 0 .. Len(heap) - 1 : NodeOf(pool, heap[i + 1]).pqueue_location = i

\* a push has moved its node up from the end of the heap
C7_Witness ==
    /\ call.op = "push" /\ Len(heap) >= 3
    /\ NodeOf(pool, call.id).pqueue_location = 0

\* C8: pop on a non-empty heap removes exactly one entry and returns it, no
\* entry left in the heap has a smaller lb, none with the same lb a
\* larger g; pop on an empty heap returns nothing and changes nothing.
C8_PopMinimal ==
    [][call'.op = "pop" =>
         IF heap = <<>>
         THEN ret' = None /\ heap' = heap /\ pool' = pool
         ELSE /\ ret' # None
              /\ Len(heap') = Len(heap) - 1
              /\ { heap'[i] : i \in DOMAIN heap' } =
                     { heap[i] : i \in DOMAIN heap } \ {ret'[1]}
              /\ ret'[1] \in { heap[i] : i \in DOMAIN heap }
              /\ \A i \in DOMAIN heap' :
                     /\ NodeOf(pool, ret'[1]).lb <= NodeOf(pool, heap'[i]).lb
                     /\ NodeOf(pool, ret'[1]).lb = NodeOf(pool, heap'[i]).lb
                           => NodeOf(pool, ret'[1]).g >= NodeOf(pool, heap'[i]).g
                     /\ NodeOf(pool', heap'[i]).lb = NodeOf(pool, heap'[i]).lb
                     /\ NodeOf(pool', heap'[i]).g = NodeOf(pool, heap'[i]).g]_vars

\* a pop has returned an entry and left one with the same lb and a smaller g
C8_Witness ==
    /\ call.op = "pop" /\ ret # None /\ Len(heap) >= 2
    /\ \E i \in DOMAIN heap :
          /\ NodeOf(pool, heap[i]).lb = NodeOf(pool, ret[1]).lb
          /\ NodeOf(pool, heap[i]).g < NodeOf(pool, ret[1]).g

\* C9: generate for a vertex not touched since the last reset, or since
\* construction, returns a node with g = lb = infinity, no parent, no
\* expansions and heap index 0.
C9_GenerateFresh ==
    (call.op = "generate" /\ call.fresh) =>
        /\ ret[1].g = INFINITY
        /\ ret[1].lb = INFINITY
        /\ ret[1].parent = None
        /\ ret[1].expansions = 0
        /\ ret[1].pqueue_location = 0

\* C10: get returns nothing for a vertex not touched since the last reset, or
\* since construction.
C10_GetOnlyTouched ==
    (call.op = "get" /\ call.fresh) => ret = None

---------------------------------------------------------------------------
\* C11: generate for a vertex already generated since the last reset returns
\* that vertex's node as it was, every field unchanged, and a generate call
\* changes no field of the node of any other vertex.
C11_GenerateKeeps ==
    [][call'.op = "generate" =>
         /\ \A w \in Cells(pool.width, pool.height) \ {call'.id} :
                NodeOf(pool', w) = NodeOf(pool, w)
         /\ ~call'.fresh =>
                /\ NodeOf(pool', call'.id) = NodeOf(pool, call'.id)
                /\ ret' = Some(NodeOf(pool, call'.id))]_vars

\* generate has returned a node that a search had written to, after a reset
C11_Witness ==
    /\ call.op = "generate" /\ ~call.fresh /\ pool.search_num >= 1
    /\ ret[1].g = ONE /\ ret[1].parent # None /\ ret[1].pqueue_location = 1
    /\ ret[1].expansions = 1

\* C12: after reset every vertex is untouched, whatever had been generated or
\* written before: get returns nothing and the next generate returns a
\* freshly initialised node (g = lb = infinity, no parent, no expansions, heap
\* index 0); and a second reset leaves the pool in the same logical state:
\* get and generate answer after it, field by field, as they do after the
\* first.
C12_ResetIdempotent ==
    call.op = "reset" =>
        \A v \in Cells(pool.width, pool.height) :
            /\ pool_get(pool, v[1], v[2]) = None
            /\ NodeOf(generate(pool, v), v).g = INFINITY
            /\ NodeOf(generate(pool, v), v).lb = INFINITY
            /\ NodeOf(generate(pool, v), v).parent = None
            /\ NodeOf(generate(pool, v), v).expansions = 0
            /\ NodeOf(generate(pool, v), v).pqueue_location = 0
            /\ pool_get(reset(pool), v[1], v[2]) = None
            /\ [NodeOf(generate(reset(pool), v), v) EXCEPT !.search_num = 0]
                   = [NodeOf(generate(pool, v), v) EXCEPT !.search_num = 0]

\* C13: a reset called with the generation counter at its maximum sets every
\* node's counter to zero and the pool's to one, so that no vertex is touched
\* right after it; and once the pool has been reset, no vertex that has not
\* been generated since the last reset is reported by get, whatever
\* generation its node was stamped in before.
C13_OverflowReset ==
    [][/\ (call'.op = "reset" /\ pool.search_num = MaxSearchNum) =>
              /\ pool'.search_num = 1
              /\ \A v \in Cells(pool.width, pool.height) :
                     /\ NodeOf(pool', v).search_num = 0
                     /\ pool_get(pool', v[1], v[2]) = None
       /\ pool'.search_num >= 1 =>
              \A v \in Cells(pool.width, pool.height) \ touched' :
                  pool_get(pool', v[1], v[2]) = None]_vars

\* the counter has just overflowed over a node that an earlier search had
\* generated
C13_Witness ==
    /\ call.op = "reset" /\ pool.search_num = 1
    /\ \E v \in Cells(pool.width, pool.height) :
          NodeOf(pool, v).search_num = 0 /\ NodeOf(pool, v).lb = INFINITY

\* C14: after construction and any sequence of set calls the BitGrid is the W x H
\* boolean matrix of the values last set (false where never set) inside a
\* border that is true for good: get at an in-bounds cell returns the value
\* most recently set there, so a set changes no other cell; get at every
\* padding coordinate (x = -1, x = W, y = -1 or y = H) returns true; and a set
\* at a coordinate outside 0..W x 0..H fails and leaves the grid unchanged.
C14_BooleanMatrix ==
    /\ [](/\ \A c \in Cells(map.width, map.height) :
                 get(map, c[1], c[2]) <=> c \in touched
          /\ \A c \in PaddedCells(map.width, map.height)
                      \ Cells(map.width, map.height) :
                 get(map, c[1], c[2])
          /\ (call.op = "set" /\ call.id \notin Cells(map.width, map.height))
                 => call.panicked)
    /\ [][(call'.op = "set" /\ call'.panicked) => map' = map]_vars

\* a set(W, y, false) that fails on a map that holds MaxSet obstructed cells
C14_Witness ==
    /\ call.op = "set" /\ call.panicked /\ ~call.v
    /\ call.id[1] = map.width /\ call.id[2] \in 0 .. map.height - 1
    /\ Cardinality(touched) = MaxSet

\* C15: for every W, H >= 1 and every (x, y) in -1..W+1 x -1..H+1 the eight
\* bytes read by get_row (idx .. idx+7) and by get_row_upper (idx-7 .. idx) lie
\* inside the backing byte array, guards included; and every position a JPS
\* jump started from an in-bounds cell reads lies in that coordinate range of
\* the grid it reads (the map, or the transpose).
C15_ReadsInside ==
    /\ \A g \in {map, tmap} :
       \A c \in PaddedCells(g.width, g.height), upper \in BOOLEAN :
           row_bytes(g, c[1], c[2], upper) \subseteq 0 .. g.bytes - 1
    /\ \A r \in reads :
           /\ r.grid \in {"map", "tmap"}
           /\ padded_bounds_check(IF r.grid = "map" THEN map ELSE tmap,
                                  r.x, r.y)

\* an expansion whose jump goes round its loop a second time, reading the
\* row of padding above the map past the first ROW_TILES - 1 cells of the row
C15_Witness ==
    /\ call.op = "jps" /\ ~call.panicked
    /\ \E r \in reads : r.grid = "map" /\ r.x >= ROW_TILES - 1 /\ r.y = -1

\* C16 as stated: for every grid contents, every (x, y) in 0..W x 0..H and
\* every i in 0..57, bit i of row(x, y) equals get(x + i, y) when x + i <= W
\* (the bit for x + i = W being the padding bit, 1) and equals 1 otherwise;
\* bits 57..63 of the result are zero.
C16_RowOnesBeyond ==
    (/\ call.op = "get_row" /\ ~call.panicked
     /\ call.id \in Cells(map.width, map.height)) =>
        \A i \in 0 .. U64_BITS - 1 :
            IF i >= ROW_TILES THEN i \notin ret[1]
            ELSE IF call.id[1] + i <= map.width
                 THEN i \in ret[1] <=> get(map, call.id[1] + i, call.id[2])
                 ELSE i \in ret[1]

\* C16, amended: bit i of row(x, y) equals get(x + i, y) when x + i <= W (the
\* bit for x + i = W being the padding bit, 1); for x + i > W it is the bit i
\* places after that of (x, y) in the row-major array of padded rows, that is
\* the cell (x + 1 + i) mod (W + 1) - 1 of row y + (x + 1 + i) div (W + 1)
\* while that row is at most H, which need not be 1; bits 57..63 of the
\* result are zero.
C16_RowBits ==
    (/\ call.op = "get_row" /\ ~call.panicked
     /\ call.id \in Cells(map.width, map.height)) =>
        \A i \in 0 .. U64_BITS - 1 :
            LET k == call.id[1] + 1 + i
                xx == (k % (map.width + 1)) - 1
                yy == call.id[2] + (k \div (map.width + 1))
            IN  IF i >= ROW_TILES THEN i \notin ret[1]
                ELSE IF call.id[1] + i <= map.width
                     THEN i \in ret[1] <=> get(map, call.id[1] + i, call.id[2])
                     ELSE yy <= map.height =>
                              (i \in ret[1] <=> get(map, xx, yy))

\* a row read whose window runs past the padding bit of its row into a free
\* cell and into an obstructed cell of the row below
C16_Witness ==
    /\ call.op = "get_row" /\ ~call.panicked
    /\ call.id \in Cells(map.width, map.height)
    /\ \E i, j \in 0 .. ROW_TILES - 1 :
           /\ call.id[1] + i > map.width /\ i \notin ret[1]
           /\ call.id[1] + j > map.width /\ j \in ret[1]
           /\ <<((call.id[1] + 1 + j) % (map.width + 1)) - 1,
                call.id[2] + ((call.id[1] + 1 + j) \div (map.width + 1))>>
                  \in touched

\* C17: for every grid contents, every in-bounds (x, y) and every k in 0..57
\* with x - k >= -1, bit 63 - k of row_upper(x, y) equals get(x - k, y) (bit
\* 63 is cell x, bit 7 is cell x - 56, the left padding cell reads 1), and
\* the lower seven bits of the result are zero.
C17_RowUpperBits ==
    (/\ call.op = "get_row_upper" /\ ~call.panicked
     /\ call.id \in Cells(map.width, map.height)) =>
        /\ \A k \in 0 .. ROW_TILES - 1 :
               call.id[1] - k >= -1 =>
                   ((U64_BITS - 1 - k) \in ret[1]
                        <=> get(map, call.id[1] - k, call.id[2]))
        /\ ret[1] \cap (0 .. U64_BITS - ROW_TILES - 1) = {}

\* a read at a free cell 56 to the right of an obstructed one: bit 63 is
\* clear and bit 7 is set
C17_Witness ==
    /\ call.op = "get_row_upper" /\ ~call.panicked
    /\ call.id[1] - (ROW_TILES - 1) >= 0
    /\ call.id \in Cells(map.width, map.height)
    /\ (U64_BITS - ROW_TILES) \in ret[1]
    /\ (U64_BITS - 1) \notin ret[1]

\* C18: for every grid contents and every in-bounds (x, y), neighbours(x, y)
\* contains direction D exactly when get at the adjacent cell in direction D is
\* true (NW = (x-1, y-1), N = (x, y-1), NE = (x+1, y-1), W = (x-1, y),
\* E = (x+1, y), SW = (x-1, y+1), S = (x, y+1), SE = (x+1, y+1)), cells on the
\* grid edge and grids of width or height 1 included.
C18_Neighbors ==
    (call.op = "get_neighbors" /\ ~call.panicked) =>
        \A D \in { <<"NorthWest", -1, -1>>, <<"North", 0, -1>>,
                   <<"NorthEast", 1, -1>>, <<"West", -1, 0>>,
                   <<"East", 1, 0>>, <<"SouthWest", -1, 1>>,
                   <<"South", 0, 1>>, <<"SouthEast", 1, 1>> } :
            D[1] \in ret[1] <=> get(map, call.id[1] + D[2], call.id[2] + D[3])

\* the corner (0, 0) of a grid of height 1 with the cell east of it obstructed
C18_Witness ==
    /\ call.op = "get_neighbors" /\ ~call.panicked
    /\ call.id = <<0, 0>> /\ map.height = 1 /\ map.width > 1
    /\ touched = {<<1, 0>>}
    /\ ret[1] = { Direction[j] : j \in 1 .. 8 }

\* C19: for every map and every unobstructed in-bounds cell (x, y) the
\* NoCornerCutting expander emits exactly these edges and no others: one edge
\* of cost 1 to each of the four cardinal neighbours that is unobstructed, and
\* one edge of cost sqrt(2) to each diagonal neighbour for which the diagonal
\* cell and both flanking cardinal cells are unobstructed; it never emits an
\* edge to an obstructed or out-of-grid cell.
C19_NccEdges ==
    (/\ call.op = "ncc" /\ ~call.panicked
     /\ ~get(map, call.id[1], call.id[2])) =>
        LET u == call.id
            edges == ret[1]
            steps == { d \in { Steps[j] : j \in 1 .. 8 } : StepOk(map, u, d) }
        IN  /\ { edges[j] : j \in 1 .. Len(edges) }
                   = { Edge(<<u[1] + d[1], u[2] + d[2]>>, StepCost(d)) :
                           d \in steps }
            /\ Len(edges) = Cardinality(steps)
            /\ \A j \in 1 .. Len(edges) : Free(map, edges[j].destination)

\* the corner (0, 0) of a 2 x 2 map with (1, 0) obstructed: the one edge is
\* the step south, the diagonal to the free cell (1, 1) is withheld
C19_Witness ==
    /\ call.op = "ncc" /\ ~call.panicked
    /\ call.id = <<0, 0>> /\ map.width = 2 /\ map.height = 2
    /\ touched = {<<1, 0>>}
    /\ ret[1] = <<Edge(<<0, 1>>, ONE)>>

\* C20: with scale 1 the provided heuristics are consistent for the
\* connectivities they match, in the f64 arithmetic they are computed in (the
\* sum cost + h(v) taken in f64 too, which is never below the exact sum's
\* rounding, so that a violation here is one of the exact inequality): for
\* every target t, the octile heuristic has h(t) = 0 and h(u) <= cost(u, v)
\* + h(v) for every edge (u, v) the NoCornerCutting expander emits and for
\* every jump edge the Jps expander emits; the Manhattan heuristic has the
\* same for the 4-neighbour unit-cost edges of OrthoEdges; and the zero
\* heuristic has it for every edge, the costs being non-negative.
C20_Consistent ==
    (call.op \in {"ncc", "jps", "ortho"} /\ ~call.panicked) =>
        \A t \in GridGoals(map) :
        \A j \in 1 .. Len(ret[1]) :
            LET u == call.id
                v == ret[1][j].destination
                cost == f64_cost(ret[1][j].cost)
            IN  /\ call.op \in {"ncc", "jps"} =>
                    /\ octile_heuristic_f64(t, t) = f64_from(0)
                    /\ f64_le(octile_heuristic_f64(t, u),
                              f64_add(cost, octile_heuristic_f64(t, v)))
                /\ call.op = "ortho" =>
                    /\ manhattan_heuristic_f64(t, t) = f64_from(0)
                    /\ f64_le(manhattan_heuristic_f64(t, u),
                              f64_add(cost, manhattan_heuristic_f64(t, v)))
                /\ f64_le(f64_from(0), cost)
                /\ f64_le(f64_from(zero_heuristic(u)),
                          f64_add(cost, f64_from(zero_heuristic(v))))

---------------------------------------------------------------------------
\* the instance searched is scenario sc: its map, its source and its goal
IsScenario(sc) ==
    /\ map.width = sc.w /\ map.height = sc.ht
    /\ inst = [from |-> sc.from, to |-> sc.to]
    /\ \A c \in Cells(sc.w, sc.ht) : get(map, c[1], c[2]) <=> c \in sc.blocked

\* the wall of four cells in column 1, searched from (0,0) to (2,0)
WallScenario ==
    [w |-> 5, ht |-> 5,
     blocked |-> {<<1, 0>>, <<1, 1>>, <<1, 2>>, <<1, 3>>},
     from |-> <<0, 0>>, to |-> <<2, 0>>]

\* the two rows of three obstacles, searched from (0,0) to (4,4)
BarsScenario ==
    [w |-> 5, ht |-> 5,
     blocked |-> {<<1, 1>>, <<2, 1>>, <<3, 1>>, <<1, 3>>, <<2, 3>>, <<3, 3>>},
     from |-> <<0, 0>>, to |-> <<4, 4>>]

\* the searches with the NoCornerCutting expander that have ended: Dijkstra
\* and A*, whose lengths are the first two of len
NccEnded == {i \in 1 .. Len(len) : Algorithms[i] # "Jps"}

\* C21 as stated: on the wall map the NoCornerCutting searches from (0,0) to
\* (2,0) end with the goal's g equal to 2 + 4 = 6.
C21_WallSix ==
    IsScenario(WallScenario) => \A i \in NccEnded : len[i] = Some(6 * ONE)

\* C21: on the wall map (obstacles (1,0) .. (1,3), row 4 free) the
\* NoCornerCutting searches from (0,0) to (2,0) end with the goal reached and
\* its g equal to 10: four steps down column 0, two steps along row 4 (the
\* diagonals round the wall's end are withheld, (1,3) flanking them) and four
\* steps up column 2.
C21_WallTen ==
    IsScenario(WallScenario) => \A i \in NccEnded : len[i] = Some(10 * ONE)

\* both NoCornerCutting searches of the wall map have ended, the second by
\* popping the goal
C21_Witness ==
    /\ IsScenario(WallScenario)
    /\ NccEnded = {1, 2} /\ alg = 2 /\ pc = "done"
    /\ node # None /\ node[1].id = <<2, 0>> /\ node[1].parent = Some(<<2, 1>>)

\* C22 as stated: on the map of the two bars the NoCornerCutting searches
\* from (0,0) to (4,4) end with the goal's g equal to 4 * sqrt(2).
C22_BarsDiagonal ==
    IsScenario(BarsScenario) => \A i \in NccEnded : len[i] = Some(4 * SQRT_2)

\* C22: on the map of the two bars (obstacles (1,1) .. (3,1) and (1,3) ..
\* (3,3)) the NoCornerCutting searches from (0,0) to (4,4) end with the goal
\* reached and its g equal to 8: every diagonal step between free cells of
\* this map has an obstructed flank, so that a path is eight cardinal steps.
C22_BarsEight ==
    IsScenario(BarsScenario) => \A i \in NccEnded : len[i] = Some(8 * ONE)

\* both NoCornerCutting searches of the bars map have ended, the second by
\* popping the goal, and no free cell of the map has a diagonal step
C22_Witness ==
    /\ IsScenario(BarsScenario)
    /\ NccEnded = {1, 2} /\ alg = 2 /\ pc = "done"
    /\ node # None /\ node[1].id = <<4, 4>> /\ node[1].g = len[2][1]
    /\ \A c \in Cells(5, 5) : \A k \in {1, 3, 6, 8} : ~(Free(map, c) /\ StepOk(map, c, Steps[k]))

---------------------------------------------------------------------------
\* the walk of n steps d from u stays on the octile grid graph of m: every
\* step goes to a free cell and a diagonal step has both flanks free
WalkOk(m, u, d, n) ==
    \A i \in 0 .. n - 1 : StepOk(m, <<u[1] + i * d[1], u[2] + i * d[2]>>, d)

\* edge e from u is a walk of n >= 1 steps in one compass direction, of the
\* cost of its steps
IsWalk(m, u, e) ==
    \E j \in 1 .. 8 :
    \E n \in 1 .. Max({m.width, m.height}) :
        /\ e.destination = <<u[1] + n * Steps[j][1], u[2] + n * Steps[j][2]>>
        /\ e.cost = n * StepCost(Steps[j])
        /\ WalkOk(m, u, Steps[j], n)

\* C23: every edge the Jps expander emits from an unobstructed in-bounds
\* node, whatever the goal the policy holds, is a walk of the NoCornerCutting
\* graph of the same cost: d >= 1 steps in one compass direction, cost d or
\* d * sqrt(2), the destination and the cells passed unobstructed, both flanks
\* of every diagonal step unobstructed.
C23_JpsEdgesAreWalks ==
    (/\ call.op = "jps" /\ ~call.panicked
     /\ ~get(map, call.id[1], call.id[2])) =>
        \A j \in 1 .. Len(ret[1]) : IsWalk(map, call.id, ret[1][j])

---------------------------------------------------------------------------
\* the scan, cell by cell, stops at offset k of row y of m in the direction
\* s (1 towards plus, -1 towards minus): the cell is obstructed, or a cell
\* beside it on row y - 1 or y + 1 is free behind an obstructed one
ScanStops(m, x, y, s, k) ==
    \/ get(m, x + s * k, y)
    \/ /\ k >= 1
       /\ \E yy \in {y - 1, y + 1} :
              ~get(m, x + s * k, yy) /\ get(m, x + s * (k - 1), yy)

\* the first offset the scan stops at; the padding stops it at the latest
ScanStop(m, x, y, s) ==
    Min({ k \in 0 .. (IF s = 1 THEN m.width - x ELSE x + 1) :
              ScanStops(m, x, y, s, k) })

\* the result of the scan that stopped at offset k
Scanned(m, x, y, s, goal_x, goal_y, k) ==
    IF y = goal_y /\ 0 <= s * (goal_x - x) /\ s * (goal_x - x) <= k
    THEN Ok(s * (goal_x - x))
    ELSE IF get(m, x + s * k, y) THEN Err(k <= 1) ELSE Ok(k)

\* C24: for every map, every in-bounds start and every goal, jump_plus and
\* jump_minus, which read 57 cells at a time and advance 56 cells when the
\* stop mask is zero, return what the cell-by-cell scan returns: success at
\* the goal's offset when the goal lies on the row between the start and the
\* stop, else failure with the flag (k <= 1) when the stop cell is
\* obstructed, else success at k; on the map and on the transpose.
C24_JumpIsScan ==
    (call.op \in {"jump_plus", "jump_minus"}) =>
        \E s \in {IF call.op = "jump_plus" THEN 1 ELSE -1} :
        \E m \in {IF call.grid = "map" THEN map ELSE tmap} :
            ret[1] = Scanned(m, call.id[1], call.id[2], s,
                             call.goal[1], call.goal[2],
                             ScanStop(m, call.id[1], call.id[2], s))

\* a jump along the wide row that went round its loop a second time and
\* reached the goal beyond the first word
C24_Witness ==
    /\ call.op = "jump_plus" /\ call.grid = "map"
    /\ map.width = WideW /\ call.id = <<0, 0>>
    /\ call.goal = <<WideW - 1, 0>>
    /\ ret[1] = Ok(WideW - 1)
    /\ \E r \in reads : r.x = ROW_TILES - 1

---------------------------------------------------------------------------
\* the diagonal directions with their steps
DiagSteps ==
    { <<"NorthWest", -1, -1>>, <<"NorthEast", 1, -1>>,
      <<"SouthWest", -1, 1>>, <<"SouthEast", 1, 1>> }

\* the two cardinal jumps the diagonal jump of the expansion in `call` makes
\* from its n-th diagonal cell in direction d: along the row of the map and
\* along the row of the transpose
DiagCardinals(d, n) ==
    LET cx == call.id[1] + n * d[2]
        cy == call.id[2] + n * d[3]
        goal_x == policy.goal[1]
        goal_y == policy.goal[2]
    IN  << IF d[2] > 0 THEN jump_plus_unchecked(map, cx, cy, goal_x, goal_y)
           ELSE jump_minus_unchecked(map, cx, cy, goal_x, goal_y),
           IF d[3] > 0 THEN jump_plus_unchecked(tmap, cy, cx, goal_y, goal_x)
           ELSE jump_minus_unchecked(tmap, cy, cx, goal_y, goal_x) >>

\* both cardinal jumps from the n-th diagonal cell fail
DiagFails(d, n) == \A r \in {DiagCardinals(d, n)} : ~r[1].ok /\ ~r[2].ok

\* the "failed within one cell" flags of the two jumps
DiagFlags(d, n) == { DiagCardinals(d, n)[i].flag : i \in 1 .. 2 }

\* the diagonal jump gets to its n-th cell with nothing to decide before:
\* at every earlier cell both jumps failed and neither raised its flag
RECURSIVE DiagReached(_, _)
DiagReached(d, n) ==
    \/ n = 1
    \/ /\ DiagReached(d, n - 1)
       /\ DiagFails(d, n - 1)
       /\ DiagFlags(d, n - 1) = {FALSE}

\* the diagonal jump went on to its n-th cell: it made the jump along the
\* row of the map from there
DiagWentOn(d, n) ==
    \E r \in reads :
        /\ r.grid = "map"
        /\ r.x = call.id[1] + n * d[2] /\ r.y = call.id[2] + n * d[3]

\* the expansion emitted an edge in direction d
DiagEdge(d) ==
    \E j \in 1 .. Len(ret[1]) : \E n \in 1 .. Max({map.width, map.height}) :
        ret[1][j].destination = <<call.id[1] + n * d[2], call.id[2] + n * d[3]>>

\* the diagonal jumps an expansion made, with the cells they got to
DiagJumps ==
    { dn \in DiagSteps \X (1 .. Max({map.width, map.height})) :
        /\ dn[1][1] \in canonical_successors(map, call.id,
                                             get_direction(call.id, call.parent))
        /\ DiagReached(dn[1], dn[2]) }

\* C25 as stated: when both cardinal jumps from a diagonal cell fail, the
\* diagonal jump fails only if both raise the flag "failed within one cell";
\* when at most one does it goes on to the next diagonal cell.
C25_FailsOnBothFlags ==
    (call.op = "jps" /\ ~call.panicked) =>
        \A dn \in DiagJumps :
            DiagFails(dn[1], dn[2]) =>
                IF DiagFlags(dn[1], dn[2]) = {TRUE}
                THEN ~DiagEdge(dn[1])
                ELSE DiagWentOn(dn[1], dn[2] + 1)

\* C25: when both cardinal jumps from a diagonal cell fail, the diagonal
\* jump fails, without going on to the next diagonal cell, as soon as one of
\* the two raises the flag "failed within one cell"; it goes on to the next
\* diagonal cell only when neither does.
C25_FailsOnEitherFlag ==
    (call.op = "jps" /\ ~call.panicked) =>
        \A dn \in DiagJumps :
            DiagFails(dn[1], dn[2]) =>
                IF TRUE \in DiagFlags(dn[1], dn[2])
                THEN ~DiagEdge(dn[1]) /\ ~DiagWentOn(dn[1], dn[2] + 1)
                ELSE DiagWentOn(dn[1], dn[2] + 1)

\* an expansion whose diagonal jump went on from its first cell, neither
\* flag raised, and failed at the second, where one jump fails next to the
\* border of the map and the other further away
C25_Witness ==
    /\ call.op = "jps" /\ ~call.panicked
    /\ \E dn \in DiagJumps :
        /\ dn[2] = 2
        /\ DiagFails(dn[1], 2)
        /\ DiagFlags(dn[1], 2) = {TRUE, FALSE}
        /\ ~DiagEdge(dn[1])

---------------------------------------------------------------------------
\* the direction of step v, and the step of direction dir
DirOf(v) == Direction[CHOOSE i \in 1 .. 8 : Steps[i] = v]
StepOf(dir) == Steps[CHOOSE i \in 1 .. 8 : Direction[i] = dir]

\* the cell at step v from u is obstructed
Obstructed(u, v) == get(map, u[1] + v[1], u[2] + v[2])

\* the diagonal step v from u is open: its cell and both flanks are free
DiagOpen(u, v) ==
    ~Obstructed(u, v) /\ ~Obstructed(u, <<v[1], 0>>) /\ ~Obstructed(u, <<0, v[2]>>)

\* the steps to expand from u reached by a step arr (<<0, 0>> for a node
\* without parent), stated from the cells round u
Successors(u, arr) ==
    IF arr = <<0, 0>>
    THEN { v \in { Steps[i] : i \in 1 .. 8 } :
             IF v[1] # 0 /\ v[2] # 0 THEN DiagOpen(u, v) ELSE ~Obstructed(u, v) }
    ELSE IF arr[1] # 0 /\ arr[2] # 0
    THEN { v \in {<<arr[1], 0>>, <<0, arr[2]>>} : ~Obstructed(u, v) }
         \cup { v \in {arr} : DiagOpen(u, v) }
    ELSE { v \in {arr} : ~Obstructed(u, v) }
         \cup UNION {
              IF Obstructed(u, <<s[1] - arr[1], s[2] - arr[2]>>) /\ ~Obstructed(u, s)
              THEN {s} \cup { v \in {<<s[1] + arr[1], s[2] + arr[2]>>} :
                                ~Obstructed(u, arr) /\ ~Obstructed(u, v) }
              ELSE {} :
              s \in {<<-arr[2], arr[1]>>, <<arr[2], -arr[1]>>} }

\* a set of directions turned by 90 degrees
Rotated(dirs) ==
    { DirOf(<<-StepOf(dir)[2], StepOf(dir)[1]>>) : dir \in dirs }

\* C26: canonical_successors returns, from the 3 x 3 neighbourhood of the
\* node: without arrival direction every free cardinal and every diagonal
\* whose cell and two flanks are free; for a diagonal arrival d each free
\* flank of d, and d when its cell and both flanks are free; for a cardinal
\* arrival c, c when free and, for each side s whose rear diagonal is
\* obstructed while s is free, s and the forward diagonal between c and s
\* when c and that diagonal are free.  And the cases agree under rotation:
\* the neighbourhood and the arrival turned by 90 degrees give the
\* successors turned by 90 degrees.
C26_CanonicalSuccessors ==
    (call.op = "canonical_successors") =>
        LET arr == IF call.parent = None THEN <<0, 0>>
                   ELSE <<call.id[1] - call.parent[1][1],
                          call.id[2] - call.parent[1][2]>>
            dir == get_direction(call.id, call.parent)
            nbs == get_neighbors(map, call.id[1], call.id[2])
        IN  /\ ret[1] = { DirOf(v) : v \in Successors(call.id, arr) }
            /\ successors_of(Rotated(nbs),
                             IF dir = None THEN None
                             ELSE Some(DirOf(<<-arr[2], arr[1]>>)))
                   = Rotated(ret[1])

\* the centre reached by a step north with the south-west cell obstructed:
\* north, the forced west and the diagonal between them
C26_Witness ==
    /\ call.op = "canonical_successors"
    /\ call.id = <<1, 1>> /\ call.parent = Some(<<1, 2>>)
    /\ touched = {<<0, 2>>}
    /\ ret[1] = {"North", "West", "NorthWest"}

---------------------------------------------------------------------------
\* the vertices in the heap h
Entries(hp) == { hp[i] : i \in DOMAIN hp }

\* 0-based heap index i lies on the path from index n up to the root
RECURSIVE OnPath(_, _)
OnPath(i, n) == i = n \/ (n > 0 /\ OnPath(i, (n - 1) \div 2))

\* the child of index i on the path from index n up to the root, i < n
RECURSIVE ChildOnPath(_, _)
ChildOnPath(i, n) ==
    IF (n - 1) \div 2 = i THEN n ELSE ChildOnPath(i, (n - 1) \div 2)

\* hq is hp with v put at the tail and sifted up: v ends on the path from the
\* tail to the root, the entries of the path below it have moved one step
\* down the path, and the others have stayed
SiftedUp(hp, hq, v) ==
    \E k \in 0 .. Len(hp) :
        /\ hq[k + 1] = v
        /\ OnPath(k, Len(hp))
        /\ \A i \in 0 .. Len(hp) - 1 :
               hq[(IF OnPath(i, Len(hp)) /\ i >= k
                   THEN ChildOnPath(i, Len(hp)) ELSE i) + 1] = hp[i + 1]

\* no vertex is in two slots of the heap
HeapDistinct == Cardinality(Entries(heap)) = Len(heap)

\* C27: push (decrease_key) on a node that is not in the heap (never
\* inserted, popped, or with a heap index left over from clear or from a
\* reset of the pool) inserts it once, at the tail, and sifts it up; on a
\* node that is in the heap it moves the entry it has, adding none; no
\* vertex is ever in two slots of the heap.
C27_PushOnce ==
    /\ []HeapDistinct
    /\ [][call'.op = "push" =>
            IF call'.id \in Entries(heap)
            THEN Len(heap') = Len(heap) /\ Entries(heap') = Entries(heap)
            ELSE /\ Len(heap') = Len(heap) + 1
                 /\ Entries(heap') = Entries(heap) \cup {call'.id}
                 /\ SiftedUp(heap, heap', call'.id)]_vars

\* a push of a node that was not in the heap and carried, from before the
\* last reset of the pool, the index of a slot that another vertex held: it
\* went in at the tail and was sifted up to the root
C27_Witness ==
    /\ call.op = "push" /\ call.stale = "reset"
    /\ Len(heap) = MaxNodes
    /\ heap[1] = call.id
    /\ pool.grid[pool_locate(pool, heap[2][1], heap[2][2]) + 1].lb > 0
    /\ HeapDistinct

---------------------------------------------------------------------------
\* the node of v was relaxed over an edge the expansion policy emits for the
\* node of u, its g being that of u plus the cost of the edge
RelaxedOver(u, v) ==
    \E e \in { expand_unchecked(Algorithms[alg], unwrap_get(pool, u))[j] :
                 j \in 1 .. Len(expand_unchecked(Algorithms[alg],
                                                 unwrap_get(pool, u))) } :
        /\ e.destination = v
        /\ unwrap_get(pool, v).g = unwrap_get(pool, u).g + e.cost

\* the parent pointers from v lead to the source over emitted edges, through
\* touched vertices none of which is in seen or met twice
RECURSIVE ChainOk(_, _)
ChainOk(v, seen) ==
    IF v = inst.from
    THEN unwrap_get(pool, v).parent = None /\ unwrap_get(pool, v).g = 0
    ELSE \E par \in {unwrap_get(pool, v).parent} :
            /\ par # None
            /\ par[1] \notin seen \cup {v}
            /\ bounds_check(pool, par[1][1], par[1][2])
            /\ pool_get(pool, par[1][1], par[1][2]) # None
            /\ RelaxedOver(par[1], v)
            /\ ChainOk(par[1], seen \cup {v})

\* the vertices the search has touched and given a finite g
Reached ==
    { v \in Cells(pool.width, pool.height) :
        /\ pool_get(pool, v[1], v[2]) # None
        /\ unwrap_get(pool, v).g < INFINITY }

\* C28: when a search ends, the parent pointers of every touched vertex with
\* finite g lead to the source in finitely many steps without meeting a
\* vertex twice, the source has no parent, every step from a parent to its
\* child is an edge the expansion policy emits for the parent, and the costs
\* of these edges add up to the vertex's g.
C28_ParentChains == pc = "done" => \A v \in Reached : ChainOk(v, {})

---------------------------------------------------------------------------
(* C29 *)

HasEntry(es, d, c) == \E i \in 1 .. Len(es) : es[i] = Edge(d, c)

Mirrored(g) ==
    \A u, v \in 0 .. Len(g.vertices) - 1 : \A c \in Costs :
        HasEntry(incoming_edges(g, v), u, c)
            <=> HasEntry(outgoing_edges(g, u), v, c)

\* C29: after any sequence of add_vertex, add_edge and successful
\* try_add_edges calls, incoming_edges(v) holds an entry for u with cost c
\* exactly when outgoing_edges(u) holds an entry for v with cost c
C29_IncomingMirrorsOutgoing == pc # "failed" => Mirrored(graph)

---------------------------------------------------------------------------
(* C30 *)

\* the offset of each field of a Neighborhood from its centre
FieldStep ==
    [nw |-> <<-1, -1>>, n |-> <<0, -1>>, ne |-> <<1, -1>>,
     w |-> <<-1, 0>>, c |-> <<0, 0>>, e |-> <<1, 0>>,
     sw |-> <<-1, 1>>, s |-> <<0, 1>>, se |-> <<1, 1>>]

NeighborhoodCall == call.op = "get_neighborhood" /\ ~call.panicked

FieldIsGet(f) ==
    ret[1][f] = weighted_get_unchecked(wgrid.grid, call.id[1] + FieldStep[f][1],
                                       call.id[2] + FieldStep[f][2])

ReadsInside == wgrid.idx \subseteq 0 .. Len(wgrid.grid.cells) - 1

\* C30: for every in-bounds (x, y), each of the nine fields of
\* get_neighborhood(x, y) is the value get returns at the corresponding
\* coordinate, and every index read lies inside the cell array
C30_NeighborhoodIsGet ==
    NeighborhoodCall => ReadsInside /\ \A f \in Fields : FieldIsGet(f)

=============================================================================
